---- MODULE Spec2Model ----
(***************************************************************************)
(* The git-data service layer of vscode-gitlens: the GitService cache and  *)
(* query facade (src/src/gitService.ts) on top of the Process Runner       *)
(* git(options, ...args) (src/src/ui/webpack.config.js, the git.ts part).  *)
(*                                                                         *)
(* JavaScript runs the code of one callback to its next await without      *)
(* interruption; a continuation whose awaited promise has settled is a     *)
(* microtask, microtasks run in the order they were queued, and all of     *)
(* them run before any further I/O callback (subprocess exit, file read,   *)
(* editor or watcher event).  Every action below is one such uninterrupted *)
(* segment: the continuations run from the head of the microtask queue,    *)
(* the actions that model I/O callbacks only when the queue is empty.      *)
(*                                                                         *)
(* Files are identified by their cache key (getCacheEntryKey), revisions   *)
(* are plain (non-sentinel) revision ids, and there is one repository.     *)
(***************************************************************************)
EXTENDS Integers, Sequences, FiniteSets, TLC

\* ---------------------------------------------------------------- bounds
MaxCalls == 2
MaxRaceCalls == 4
MaxConfigChanges == 1
MaxEvictCalls == 3

\* ---------------------------------------------------------------- inputs
Files == {"f1", "f2"}
Repo == "repo"
NoSha == "none"
Shas == {"a"}
ShaVals == {NoSha} \cup Shas
NoKey == "nokey"
CorrelationKeys == {"k1", "k2"}
\* the .gitignore matchers a load can produce ({} : no matcher, or no rule matches)
RuleSets == {{}, {"f2"}}

QueryKinds == {"blame", "log", "diff"}
Keys == QueryKinds \X ShaVals

\* the queries the callers issue: <<kind, file, sha, cacheable>>; cacheable is FALSE for
\* a getLogForFile call with a range or with reverse = true
Queries ==
    {<<"blame", "f1", NoSha, TRUE>>, <<"blame", "f1", "a", TRUE>>,
     <<"blame", "f2", NoSha, TRUE>>,
     <<"log", "f1", NoSha, TRUE>>, <<"log", "f1", "a", TRUE>>,
     <<"log", "f1", NoSha, FALSE>>,
     <<"diff", "f1", NoSha, TRUE>>, <<"diff", "f2", "a", TRUE>>}
ConfigQueries ==
    {<<"blame", "f1", NoSha, TRUE>>, <<"blame", "f1", "a", TRUE>>,
     <<"blame", "f2", NoSha, TRUE>>, <<"diff", "f1", NoSha, TRUE>>}
RaceQueries ==
    {<<"blame", "f1", NoSha, TRUE>>, <<"blame", "f1", "a", TRUE>>,
     <<"log", "f1", NoSha, TRUE>>, <<"log", "f1", "a", TRUE>>}
EvictQueries ==
    {<<"blame", "f1", NoSha, TRUE>>, <<"blame", "f1", "a", TRUE>>,
     <<"diff", "f1", NoSha, TRUE>>, <<"blame", "f2", NoSha, TRUE>>}

\* promise values
NoPromise == -2
Pending == -1
Undefined == 0
Rejected == -3

\* GitService.EmptyPromise as a slot item / returned promise
EmptyPromise == 0
NoRet == -1

VARIABLES
    caching,          \* config.advanced.caching.enabled (UseCaching)
    cacheDisposable,  \* _cacheDisposable: close/save/index listeners registered
    fsWatcher,        \* _fsWatcher defined
    gitCache,         \* _gitCache: file -> entry id (0: no entry)
    entries,          \* the GitCacheEntry objects ever created: id -> key -> slot
    remotesCache,     \* _remotesCache: repo path -> the remotes parsed (by subprocess id)
    gitignore,        \* the _gitignore promises ever created: <<loaded, rules>>
    calls,            \* the calls of query methods, in the order issued
    procs,            \* the subprocesses spawned by run(), in spawn order
    pendingCommands,  \* pendingCommands: command -> subprocess id
    microtasks,       \* the continuations ready to run (call ids), in queue order
    fired,            \* the events fired by the last step, as their subscribers saw them
    pure              \* outside the service: a synchronous function's input and result, or a view node

vars == <<caching, cacheDisposable, fsWatcher, gitCache, entries, remotesCache,
          gitignore, calls, procs, pendingCommands, microtasks, fired, pure>>

\* ---------------------------------------------------------------- GitCacheEntry
NoSlot == [item |-> -1, err |-> FALSE]
EmptyEntry == [k \in Keys |-> NoSlot]
HasSlot(e, k) == entries[e][k].item # -1

\* ICachedItem { item: promise } and { item: EmptyPromise, errorMessage }
CachedItem(p) == [item |-> p, err |-> FALSE]
ErrorPlaceholder == [item |-> EmptyPromise, err |-> TRUE]

\* an entry counts as broken as soon as one cached value carries an errorMessage
hasErrors_AnyError(e) == \E k \in Keys : HasSlot(e, k) /\ entries[e][k].err
\* GitCacheEntry.hasErrors: every cached value carries an errorMessage
hasErrors(e) == \A k \in Keys : HasSlot(e, k) => entries[e][k].err

WholeKey(kind) == <<kind, NoSha>>
KeyOf(c) == <<c.kind, c.sha>>

\* ---------------------------------------------------------------- events
\* what the last step did that an observer can see: the invalidation handler that ran
\* (src, file) and whether it deleted an entry, the onDidChangeGitCache event with the
\* caches as its subscribers found them, and the onDidBlameFail events
NoFire == [src |-> "", file |-> "", removed |-> FALSE, changed |-> FALSE,
           sawFiles |-> {}, sawRemotes |-> {}, blameFail |-> {}]
CachedFiles(gc) == {f \in Files : gc[f] # 0}

\* ---------------------------------------------------------------- promises
\* the value of promise p (p = 0 is GitService.EmptyPromise, p > 0 the promise of call p)
ValueOf(p) == IF p = EmptyPromise THEN Undefined ELSE calls[p].val
Settled(p) == ValueOf(p) # Pending

MicrotasksPending == microtasks # <<>>

\* the ids of S in ascending order (the order the calls were issued)
InOrder(S) ==
    CHOOSE s \in [1..Cardinality(S) -> S] :
        \A i, j \in 1..Cardinality(S) : i < j => s[i] < s[j]

\* the continuations queued when the promise of call p settles: the calls that
\* await it as the whole-file promise
AwaitingWhole(p) == InOrder({c \in 1..Len(calls) : calls[c].pc = "awaitWhole" /\ calls[c].wait = p})

\* whether `await this._gitignore` now finds the promise resolved
IgnoreLoaded == gitignore[Len(gitignore)].loaded

\* ---------------------------------------------------------------- Process Runner
\* `${correlationKey}:[${cwd}] git ${args.join(' ')}`
Command(ck, args) == [ck |-> ck, cwd |-> Repo, args |-> args]

\* the arguments Git.blame / Git.log_file / Git.diff / Git.remote / Git.blame_contents pass
ArgsOf(c) ==
    CASE c.kind = "blame" -> <<"blame", c.sha, "--", c.file>>
      [] c.kind = "log" -> <<"log", IF c.cacheable THEN "" ELSE "--reverse", c.sha, "--", c.file>>
      [] c.kind = "diff" -> <<"-c", "color.diff=false", "diff", c.sha, "--", c.file>>
      [] c.kind = "remotes" -> <<"remote", "-v">>
      [] OTHER -> <<"blame", "--contents", "-", "--", c.file>>

CommandOf(c) == Command(c.ck, ArgsOf(c))

Range(s) == {s[i] : i \in DOMAIN s}
MapSet(m, k, v) == [x \in DOMAIN m \cup {k} |-> IF x = k THEN v ELSE m[x]]
MapDelete(m, k) == [x \in DOMAIN m \ {k} |-> m[x]]

\* the patterns of GitWarnings, and the exception a subprocess ends with: whether one
\* was thrown, whether its text is non-empty, and the patterns its text matches
GitWarnings ==
    {"notARepository", "outsideRepository", "noPath", "noCommits", "notFound",
     "foundButNotInRevision", "headNotABranch", "noUpstream", "unknownRevision",
     "mustRunInWorkTree"}
NoError == [thrown |-> FALSE, text |-> FALSE, matches |-> {}]
Errors ==
    {[thrown |-> TRUE, text |-> FALSE, matches |-> {}],
     [thrown |-> TRUE, text |-> TRUE, matches |-> {}],
     [thrown |-> TRUE, text |-> TRUE, matches |-> {"notARepository", "mustRunInWorkTree"}]}
    \cup {[thrown |-> TRUE, text |-> TRUE, matches |-> {w}] : w \in GitWarnings}

\* what git() returns for a call: the output of the subprocess, or the empty string
EmptyOutput == 0

\* a handler that rethrows every exception
defaultExceptionHandler_Rethrows(ex) == Rejected
\* defaultExceptionHandler: '' if the text matches a warning, otherwise rethrow
defaultExceptionHandler(ex) ==
    IF ex.text /\ \E warning \in GitWarnings : warning \in ex.matches
    THEN EmptyOutput
    ELSE Rejected

\* how the query methods see the end of a subprocess that ended with ex
Outcome(ex) ==
    IF ~ex.thrown THEN "ok"
    ELSE IF defaultExceptionHandler(ex) = EmptyOutput THEN "benign" ELSE "fail"

\* git(): the part up to `await promise`.  Joins the pending subprocess of the same
\* command, or spawns one and records it.  Yields the subprocess awaited.
\* a runner that never finds the command pending
\* args.splice(0, 0, '-c', 'core.quotepath=false', '-c', 'color.ui=false'): the
\* argument vector handed to run()
SafetyArgs == <<"-c", "core.quotepath=false", "-c", "color.ui=false">>
SpliceSafetyArgs_AtEnd(args) == args \o SafetyArgs
SpliceSafetyArgs(args) == SafetyArgs \o args

GitJoins_Never(cmd) == FALSE
GitJoins(cmd) == cmd \in DOMAIN pendingCommands
GitProc(cmd) == IF GitJoins(cmd) THEN pendingCommands[cmd] ELSE Len(procs) + 1
\* the subprocess joined was running when an index change cleared the cache
GitLate(cmd) == GitJoins(cmd) /\ procs[pendingCommands[cmd]].stale
\* options.stdin: what is piped to the subprocess
NoStdin == "nostdin"
Contents == {"v1", "v2"}
GitSpawn(cmd, stdin) ==
    IF GitJoins(cmd)
    THEN UNCHANGED <<procs, pendingCommands>>
    ELSE /\ procs' = Append(procs, [cmd |-> cmd, st |-> "run", has |-> {}, stale |-> FALSE,
                                    ex |-> NoError, stdin |-> stdin,
                                    argv |-> SpliceSafetyArgs(cmd.args)])
         /\ pendingCommands' = MapSet(pendingCommands, cmd, Len(procs) + 1)
GitStart(cmd) == GitSpawn(cmd, NoStdin)

Running(p) == procs[p].st = "run"

\* ---------------------------------------------------------------- Init
\* a call of a query method as issued; late and after are observations: whether the
\* call was handed a subprocess older than an index change, and, for a call served
\* from the cache, the eviction that ran just before it
NewCall(kind, file, sha, cacheable, ck) ==
    [kind |-> kind, file |-> file, sha |-> sha, cacheable |-> cacheable, ck |-> ck,
     pc |-> "start", entry |-> 0, wait |-> 0, ign |-> 0, proc |-> 0,
     ret |-> NoRet, val |-> NoPromise, late |-> FALSE, after |-> <<>>, stdin |-> NoStdin]

\* the state after the constructor: _onConfigurationChanged() has run once with
\* caching enabled, the first .gitignore load is under way
NoPure == [op |-> "none"]
InitService ==
    /\ caching = TRUE
    /\ cacheDisposable = TRUE
    /\ fsWatcher = TRUE
    /\ gitCache = [f \in Files |-> 0]
    /\ entries = <<>>
    /\ remotesCache = [x \in {} |-> 0]
    /\ \E r \in RuleSets : gitignore = <<[loaded |-> FALSE, rules |-> r]>>
    /\ calls = <<>>
    /\ procs = <<>>
    /\ pendingCommands = [x \in {} |-> 0]
    /\ microtasks = <<>>
    /\ fired = NoFire

Init == InitService /\ pure = NoPure

\* ---------------------------------------------------------------- query methods
SetCall(n, r) == IF n > Len(calls) THEN Append(calls, r) ELSE [calls EXCEPT ![n] = r]

\* `const promise = this._getXForFile(..., entry, key)` up to its first await, then
\* `entry.set(key, { item: promise })`.  _getBlameForFile and _getLogForFile suspend at
\* `await this._gitignore`; _getDiffForFile calls Git.diff, which starts git() at once.
Invoke(n, r, ents, queue) ==
    LET started == [r EXCEPT !.ret = n, !.val = Pending] IN
    /\ entries' = IF r.entry = 0 THEN ents
                  ELSE [ents EXCEPT ![r.entry][KeyOf(r)] = CachedItem(n)]
    /\ IF r.kind = "diff"
       THEN /\ calls' = SetCall(n, [started EXCEPT !.pc = "awaitGit",
                                                   !.proc = GitProc(CommandOf(r)),
                                                !.late = GitLate(CommandOf(r))])
            /\ GitStart(CommandOf(r))
            /\ microtasks' = queue
       ELSE /\ calls' = SetCall(n, [started EXCEPT !.pc = "awaitIgnore",
                                                   !.ign = Len(gitignore)])
            /\ microtasks' = IF IgnoreLoaded THEN Append(queue, n) ELSE queue
            /\ UNCHANGED <<procs, pendingCommands>>

\* a getLogForFile that takes the cache for every request
UseCaching_AnyRequest(cacheable) == caching
\* `this.UseCaching && range === undefined && !reverse` (getLogForFile); the other
\* query methods test this.UseCaching alone
UseCaching(cacheable) == caching /\ cacheable

\* getBlameForFile / getLogForFile / getDiffForFile, from the call to the first
\* suspension or return.  cacheable is FALSE for a log with a range or reversed.
QueryCall(kind, file, sha, cacheable) ==
    LET n == Len(calls) + 1
        r == NewCall(kind, file, sha, cacheable, NoKey)
        key == <<kind, sha>>
        e == gitCache[file]
    IN
    /\ ~MicrotasksPending
    /\ kind # "log" => cacheable
    /\ fired' = NoFire
    /\ UNCHANGED <<pure, caching, cacheDisposable, fsWatcher, remotesCache, gitignore>>
    /\ IF UseCaching(cacheable)
       THEN IF e # 0 /\ HasSlot(e, key)
            THEN \* return cachedBlame.item
                 /\ calls' = Append(calls, [r EXCEPT !.pc = "done", !.entry = e,
                                                     !.ret = entries[e][key].item,
                                                     !.after = IF fired.removed
                                                               THEN <<fired.src, fired.file>>
                                                               ELSE <<>>])
                 /\ UNCHANGED <<gitCache, entries, procs, pendingCommands, microtasks>>
            ELSE IF e # 0 /\ kind \in {"blame", "log"} /\ sha # NoSha
                          /\ HasSlot(e, WholeKey(kind))
            THEN \* await cachedBlame.item (the whole-file promise)
                 /\ calls' = Append(calls, [r EXCEPT !.pc = "awaitWhole", !.entry = e,
                                            !.wait = entries[e][WholeKey(kind)].item])
                 /\ microtasks' = IF Settled(entries[e][WholeKey(kind)].item)
                                  THEN <<n>> ELSE <<>>
                 /\ UNCHANGED <<gitCache, entries, procs, pendingCommands>>
            ELSE IF e = 0
            THEN \* entry = new GitCacheEntry(cacheKey); this._gitCache.set(entry.key, entry)
                 /\ gitCache' = [gitCache EXCEPT ![file] = Len(entries) + 1]
                 /\ Invoke(n, [r EXCEPT !.entry = Len(entries) + 1],
                           Append(entries, EmptyEntry), <<>>)
            ELSE /\ UNCHANGED gitCache
                 /\ Invoke(n, [r EXCEPT !.entry = e], entries, <<>>)
       ELSE /\ UNCHANGED gitCache
            /\ Invoke(n, r, entries, <<>>)

Query(kind, file, sha, cacheable) ==
    Len(calls) < MaxCalls /\ QueryCall(kind, file, sha, cacheable)

EvictQuery(kind, file, sha, cacheable) ==
    Len(calls) < MaxEvictCalls /\ QueryCall(kind, file, sha, cacheable)

RaceQuery(kind, file, sha, cacheable) ==
    Len(calls) < MaxRaceCalls /\ QueryCall(kind, file, sha, cacheable)

\* blame !== undefined && blame.commits.has(uri.sha), for the value v of the
\* whole-file promise
WholeHas_Never(v, sha) == FALSE
WholeHas(v, sha) == v > 0 /\ sha \in procs[v].has

\* the continuation of `const blame = await cachedBlame.item`
ResumeWhole(c) ==
    LET r == calls[c]
        v == ValueOf(r.wait)
    IN
    /\ microtasks # <<>> /\ c = Head(microtasks)
    /\ r.pc = "awaitWhole"
    /\ fired' = NoFire
    /\ UNCHANGED <<pure, caching, cacheDisposable, fsWatcher, gitCache, remotesCache,
                   gitignore>>
    /\ IF WholeHas(v, r.sha)
       THEN \* return cachedBlame.item
            /\ calls' = [calls EXCEPT ![c].pc = "done", ![c].ret = r.wait]
            /\ microtasks' = Tail(microtasks)
            /\ UNCHANGED <<entries, procs, pendingCommands>>
       ELSE Invoke(c, r, entries, Tail(microtasks))

\* the continuation of `const ignore = await this._gitignore` in _getBlameForFile and
\* _getLogForFile, up to `await promise` in git()
AfterIgnore(c) ==
    LET r == calls[c] IN
    /\ microtasks # <<>> /\ c = Head(microtasks)
    /\ r.pc = "awaitIgnore"
    /\ UNCHANGED <<pure, caching, cacheDisposable, fsWatcher, gitCache, entries, remotesCache,
                   gitignore>>
    /\ IF r.file \in gitignore[r.ign].rules
       THEN /\ calls' = [calls EXCEPT ![c].pc = "done", ![c].val = Undefined]
            /\ microtasks' = Tail(microtasks) \o AwaitingWhole(c)
            /\ fired' = IF r.kind = "blame" /\ r.entry # 0
                        THEN [NoFire EXCEPT !.blameFail = {r.file}]
                        ELSE NoFire
            /\ UNCHANGED <<procs, pendingCommands>>
       ELSE /\ calls' = [calls EXCEPT ![c].pc = "awaitGit",
                                      ![c].proc = GitProc(CommandOf(r)),
                                      ![c].late = GitLate(CommandOf(r))]
            /\ GitStart(CommandOf(r))
            /\ microtasks' = Tail(microtasks)
            /\ fired' = NoFire

\* the subprocess ends; every git() call awaiting it runs its catch and finally blocks
\* (pendingCommands.delete(command)) before anything else runs
ProcEnds(p, st, has, ex) ==
    /\ p \in 1..Len(procs)
    /\ Running(p)
    /\ ~MicrotasksPending
    /\ st = Outcome(ex)
    /\ has # {} => st = "ok" /\ procs[p].cmd.args[1] \in {"blame", "log"}
                             /\ NoSha \in Range(procs[p].cmd.args)
    /\ procs' = [procs EXCEPT ![p].st = st, ![p].has = has, ![p].ex = ex]
    /\ calls' = [c \in 1..Len(calls) |->
                    IF calls[c].pc = "awaitGit" /\ calls[c].proc = p
                    THEN [calls[c] EXCEPT !.pc = "gitDone"]
                    ELSE calls[c]]
    /\ pendingCommands' = MapDelete(pendingCommands, procs[p].cmd)
    /\ microtasks' = InOrder({c \in 1..Len(calls) :
                                 calls[c].pc = "awaitGit" /\ calls[c].proc = p})
    /\ fired' = NoFire
    /\ UNCHANGED <<pure, caching, cacheDisposable, fsWatcher, gitCache, entries, remotesCache,
                   gitignore>>

\* a catch block that leaves the failed promise in its slot
\* the entry the catch block writes to: the `entry` argument of _getXForFile, which
\* the query method read from (or added to) the cache map when the call was issued
CatchEntry_Current(r) == gitCache[r.file]
CatchEntry(r) == r.entry

AfterGitQuery_NoPlaceholder(c) ==
    LET r == calls[c]
        st == procs[r.proc].st
    IN
    /\ microtasks # <<>> /\ c = Head(microtasks)
    /\ r.pc = "gitDone"
    /\ r.kind \in QueryKinds
    /\ microtasks' = Tail(microtasks) \o AwaitingWhole(c)
    /\ UNCHANGED <<pure, caching, cacheDisposable, fsWatcher, gitCache, remotesCache,
                   gitignore, procs, pendingCommands, entries>>
    /\ calls' = [calls EXCEPT ![c].pc = "done",
                              ![c].val = IF st = "ok" THEN r.proc ELSE Undefined]
    /\ fired' = IF st = "fail" /\ r.entry # 0 /\ r.kind = "blame"
                THEN [NoFire EXCEPT !.blameFail = {r.file}]
                ELSE NoFire
\* the subprocess ends with its output, with a known warning or with another error
ProcSettle(p, st, has) ==
    ProcEnds(p, st, has,
             CASE st = "ok" -> NoError
               [] st = "benign" -> [thrown |-> TRUE, text |-> TRUE, matches |-> {"notFound"}]
               [] OTHER -> [thrown |-> TRUE, text |-> TRUE, matches |-> {}])

\* the continuation of `await Git.blame(...)` / Git.log_file / Git.diff in _getXForFile:
\* parse the data, or trap the error and cache the placeholder
AfterGitQuery(c) ==
    LET r == calls[c]
        st == procs[r.proc].st
    IN
    /\ microtasks # <<>> /\ c = Head(microtasks)
    /\ r.pc = "gitDone"
    /\ r.kind \in QueryKinds
    /\ microtasks' = Tail(microtasks) \o AwaitingWhole(c)
    /\ UNCHANGED <<pure, caching, cacheDisposable, fsWatcher, gitCache, remotesCache,
                   gitignore, procs, pendingCommands>>
    /\ calls' = [calls EXCEPT ![c].pc = "done",
                              ![c].val = IF st = "ok" THEN r.proc ELSE Undefined]
    /\ IF st = "fail" /\ r.entry # 0
       THEN /\ entries' = [entries EXCEPT ![CatchEntry(r)][KeyOf(r)] = ErrorPlaceholder]
            /\ fired' = IF r.kind = "blame"
                        THEN [NoFire EXCEPT !.blameFail = {r.file}]
                        ELSE NoFire
       ELSE /\ UNCHANGED entries
            /\ fired' = NoFire

\* getRemotes, up to `await Git.remote(repoPath)`
GetRemotes ==
    LET n == Len(calls) + 1
        r == NewCall("remotes", Repo, NoSha, TRUE, NoKey)
    IN
    /\ Len(calls) < MaxCalls
    /\ ~MicrotasksPending
    /\ fired' = NoFire
    /\ UNCHANGED <<pure, caching, cacheDisposable, fsWatcher, gitCache, entries, remotesCache,
                   gitignore, microtasks>>
    /\ IF caching /\ Repo \in DOMAIN remotesCache
       THEN /\ calls' = Append(calls, [r EXCEPT !.pc = "done", !.ret = n,
                                                !.val = remotesCache[Repo]])
            /\ UNCHANGED <<procs, pendingCommands>>
       ELSE /\ calls' = Append(calls, [r EXCEPT !.pc = "awaitGit", !.ret = n,
                                                !.val = Pending,
                                                !.proc = GitProc(CommandOf(r)),
                                                !.late = GitLate(CommandOf(r))])
            /\ GitStart(CommandOf(r))

\* a continuation that stores the remotes without reading UseCaching again
AfterGitRemotes_NoRecheck(c) ==
    LET r == calls[c]
        st == procs[r.proc].st
    IN
    /\ microtasks # <<>> /\ c = Head(microtasks)
    /\ r.pc = "gitDone"
    /\ r.kind = "remotes"
    /\ microtasks' = Tail(microtasks) \o AwaitingWhole(c)
    /\ fired' = NoFire
    /\ UNCHANGED <<pure, caching, cacheDisposable, fsWatcher, gitCache, entries, gitignore,
                   procs, pendingCommands>>
    /\ IF st = "fail"
       THEN /\ calls' = [calls EXCEPT ![c].pc = "done", ![c].val = Rejected]
            /\ UNCHANGED remotesCache
       ELSE /\ calls' = [calls EXCEPT ![c].pc = "done", ![c].val = r.proc]
            /\ remotesCache' = MapSet(remotesCache, Repo, r.proc)
\* the continuation of `await Git.remote(repoPath)`
AfterGitRemotes(c) ==
    LET r == calls[c]
        st == procs[r.proc].st
    IN
    /\ microtasks # <<>> /\ c = Head(microtasks)
    /\ r.pc = "gitDone"
    /\ r.kind = "remotes"
    /\ microtasks' = Tail(microtasks) \o AwaitingWhole(c)
    /\ fired' = NoFire
    /\ UNCHANGED <<pure, caching, cacheDisposable, fsWatcher, gitCache, entries, gitignore,
                   procs, pendingCommands>>
    /\ IF st = "fail"
       THEN /\ calls' = [calls EXCEPT ![c].pc = "done", ![c].val = Rejected]
            /\ UNCHANGED remotesCache
       ELSE /\ calls' = [calls EXCEPT ![c].pc = "done", ![c].val = r.proc]
            /\ remotesCache' = IF caching THEN MapSet(remotesCache, Repo, r.proc)
                               ELSE remotesCache

\* Git.blame_contents(repoPath, fileName, contents, { correlationKey }), called by the
\* trackers directly: up to `await promise` in git()
BlameContents(file, ck, contents) ==
    LET n == Len(calls) + 1
        r == [NewCall("contents", file, NoSha, TRUE, ck) EXCEPT !.stdin = contents]
    IN
    /\ Len(calls) < MaxCalls
    /\ ~MicrotasksPending
    /\ calls' = Append(calls, [r EXCEPT !.pc = "awaitGit", !.ret = n, !.val = Pending,
                                        !.proc = GitProc(CommandOf(r)),
                                        !.late = GitLate(CommandOf(r))])
    /\ GitSpawn(CommandOf(r), contents)
    /\ fired' = NoFire
    /\ UNCHANGED <<pure, caching, cacheDisposable, fsWatcher, gitCache, entries, remotesCache,
                   gitignore, microtasks>>

\* the return of git() to the caller of Git.blame_contents
AfterGitContents(c) ==
    LET r == calls[c]
        st == procs[r.proc].st
    IN
    /\ microtasks # <<>> /\ c = Head(microtasks)
    /\ r.pc = "gitDone"
    /\ r.kind = "contents"
    /\ microtasks' = Tail(microtasks) \o AwaitingWhole(c)
    /\ calls' = [calls EXCEPT ![c].pc = "done",
                              ![c].val = IF procs[r.proc].ex.thrown
                                         THEN defaultExceptionHandler(procs[r.proc].ex)
                                         ELSE r.proc]
    /\ fired' = NoFire
    /\ UNCHANGED <<pure, caching, cacheDisposable, fsWatcher, gitCache, entries, remotesCache,
                   gitignore, procs, pendingCommands>>

\* ---------------------------------------------------------------- invalidation
\* _onGitChanged: the watcher reports a change of .git/index
OnGitChanged ==
    /\ cacheDisposable
    /\ ~MicrotasksPending
    /\ gitCache' = [f \in Files |-> 0]
    /\ fired' = [NoFire EXCEPT !.src = "index", !.changed = TRUE,
                               !.sawFiles = CachedFiles(gitCache'),
                               !.sawRemotes = DOMAIN remotesCache]
    /\ procs' = [p \in 1..Len(procs) |->
                    IF Running(p) /\ CachedFiles(gitCache) \cap Range(procs[p].cmd.args) # {}
                    THEN [procs[p] EXCEPT !.stale = TRUE] ELSE procs[p]]
    /\ UNCHANGED <<pure, caching, cacheDisposable, fsWatcher, entries, remotesCache, gitignore,
                   calls, pendingCommands, microtasks>>

\* a handler that clears the whole cache where it should delete one entry
RemoveCachedEntry_ClearsAll(f, reason, isFile) ==
    /\ cacheDisposable
    /\ ~MicrotasksPending
    /\ UNCHANGED <<pure, caching, cacheDisposable, fsWatcher, entries, remotesCache, gitignore,
                   calls, procs, pendingCommands, microtasks>>
    /\ LET ran == [NoFire EXCEPT !.src = reason, !.file = f] IN
       IF ~caching \/ ~isFile
       THEN gitCache' = gitCache /\ fired' = NoFire
       ELSE IF reason = "saved" /\ gitCache[f] # 0 /\ hasErrors(gitCache[f])
       THEN gitCache' = gitCache /\ fired' = ran
       ELSE IF gitCache[f] # 0
       THEN /\ gitCache' = [g \in Files |-> 0]
            /\ fired' = IF reason = "saved"
                        THEN [ran EXCEPT !.removed = TRUE, !.changed = TRUE,
                                         !.sawFiles = CachedFiles(gitCache'),
                                         !.sawRemotes = DOMAIN remotesCache]
                        ELSE [ran EXCEPT !.removed = TRUE]
       ELSE gitCache' = gitCache /\ fired' = ran
\* _removeCachedEntry(document, reason): reason is "closed" or "saved", isFile tells
\* whether document.uri.scheme is DocumentSchemes.File
RemoveCachedEntry(f, reason, isFile) ==
    /\ cacheDisposable
    /\ ~MicrotasksPending
    /\ UNCHANGED <<pure, caching, cacheDisposable, fsWatcher, entries, remotesCache, gitignore,
                   calls, procs, pendingCommands, microtasks>>
    /\ LET ran == [NoFire EXCEPT !.src = reason, !.file = f] IN
       IF ~caching \/ ~isFile
       THEN gitCache' = gitCache /\ fired' = NoFire
       ELSE IF reason = "saved" /\ gitCache[f] # 0 /\ hasErrors(gitCache[f])
       THEN gitCache' = gitCache /\ fired' = ran
       ELSE IF gitCache[f] # 0
       THEN /\ gitCache' = [gitCache EXCEPT ![f] = 0]
            /\ fired' = IF reason = "saved"
                        THEN [ran EXCEPT !.removed = TRUE, !.changed = TRUE,
                                         !.sawFiles = CachedFiles(gitCache'),
                                         !.sawRemotes = DOMAIN remotesCache]
                        ELSE [ran EXCEPT !.removed = TRUE]
       ELSE gitCache' = gitCache /\ fired' = ran

\* the `if (advancedChanged)` block of _onConfigurationChanged and `this.config = cfg`
AdvancedChanged(cachingNew, rules) ==
    /\ ~MicrotasksPending
    /\ IF cachingNew
       THEN /\ cacheDisposable' = TRUE
            /\ fsWatcher' = TRUE
            /\ UNCHANGED <<gitCache, remotesCache>>
       ELSE /\ cacheDisposable' = FALSE
            /\ fsWatcher' = FALSE
            /\ gitCache' = [f \in Files |-> 0]
            /\ remotesCache' = [x \in {} |-> 0]
    /\ gitignore' = Append(gitignore, [loaded |-> FALSE, rules |-> rules])
    /\ caching' = cachingNew
    /\ fired' = NoFire
    /\ UNCHANGED <<entries, calls, procs, pendingCommands, microtasks>>

\* _onConfigurationChanged with advancedChanged: the new caching flag, and the matcher
\* the new .gitignore load will produce
OnConfigurationChanged(cachingNew, rules) ==
    /\ Len(gitignore) < 1 + MaxConfigChanges
    /\ AdvancedChanged(cachingNew, rules)
    /\ UNCHANGED pure

\* the fs.exists / fs.readFile callbacks resolve a _gitignore promise
GitignoreLoaded(g) ==
    /\ g \in 1..Len(gitignore)
    /\ ~gitignore[g].loaded
    /\ ~MicrotasksPending
    /\ gitignore' = [gitignore EXCEPT ![g].loaded = TRUE]
    /\ microtasks' = InOrder({c \in 1..Len(calls) :
                                 calls[c].pc = "awaitIgnore" /\ calls[c].ign = g})
    /\ fired' = NoFire
    /\ UNCHANGED <<pure, caching, cacheDisposable, fsWatcher, gitCache, entries, remotesCache,
                   calls, procs, pendingCommands>>

\* ---------------------------------------------------------------- specifications
\* the continuations and I/O completions of the query methods
Continue ==
    \/ \E c \in 1..Len(calls) : ResumeWhole(c)
    \/ \E c \in 1..Len(calls) : AfterIgnore(c)
    \/ \E p \in 1..Len(procs), st \in {"ok", "benign", "fail"}, has \in SUBSET Shas :
           ProcSettle(p, st, has)
    \/ \E c \in 1..Len(calls) : AfterGitQuery(c)
    \/ \E g \in 1..Len(gitignore) : GitignoreLoaded(g)

\* the editor and watcher events
Invalidate ==
    \/ OnGitChanged
    \/ \E f \in Files, reason \in {"closed", "saved"}, isFile \in BOOLEAN :
           RemoveCachedEntry(f, reason, isFile)

\* the service with caching enabled throughout
Next ==
    \/ \E q \in Queries : Query(q[1], q[2], q[3], q[4])
    \/ GetRemotes
    \/ \E c \in 1..Len(calls) : AfterGitRemotes(c)
    \/ Continue
    \/ Invalidate

Spec == Init /\ [][Next]_vars

\* the service under configuration changes
NextConfig ==
    \/ \E q \in ConfigQueries : Query(q[1], q[2], q[3], q[4])
    \/ GetRemotes
    \/ \E c \in 1..Len(calls) : AfterGitRemotes(c)
    \/ Continue
    \/ Invalidate
    \/ \E cachingNew \in BOOLEAN, rules \in RuleSets : OnConfigurationChanged(cachingNew, rules)

SpecConfig == Init /\ [][NextConfig]_vars

\* requests for one file that overlap a whole-file request
NextRace ==
    \/ \E q \in RaceQueries : RaceQuery(q[1], q[2], q[3], q[4])
    \/ Continue

SpecRace == Init /\ [][NextRace]_vars

\* queries against documents being saved and closed
NextEvict ==
    \/ \E q \in EvictQueries : EvictQuery(q[1], q[2], q[3], q[4])
    \/ Continue
    \/ \E f \in Files, reason \in {"closed", "saved"}, isFile \in BOOLEAN :
           RemoveCachedEntry(f, reason, isFile)

SpecEvict == Init /\ [][NextEvict]_vars

\* the Process Runner alone, under calls of Git.blame_contents
NextRunner ==
    \/ \E file \in Files, ck \in CorrelationKeys \cup {NoKey}, contents \in Contents :
           BlameContents(file, ck, contents)
    \/ \E p \in 1..Len(procs), ex \in Errors \cup {NoError} :
           ProcEnds(p, Outcome(ex), {}, ex)
    \/ \E c \in 1..Len(calls) : AfterGitContents(c)

SpecRunner == Init /\ [][NextRunner]_vars

\* ---------------------------------------------------------------- properties
AllCalls == 1..Len(calls)
AllProcs == 1..Len(procs)

\* the call has not resolved: it has no promise yet, or its promise is unsettled
Unresolved(c) == calls[c].ret = NoRet \/ ~Settled(calls[c].ret)
\* the calls whose own invocation was stored under key k of entry e
Creators(e, k) ==
    {c \in AllCalls : calls[c].entry = e /\ KeyOf(calls[c]) = k /\ calls[c].ret = c}
Min(S) == CHOOSE x \in S : \A y \in S : x <= y

\* C1: with caching enabled, of two calls of a query method for the same file and key
\* that are unresolved together against one cache entry, the second returns the
\* promise the first stored and never reaches the Process Runner itself, so that one
\* invocation serves both.
C1_SecondCallJoinsFirst ==
    \A c, d \in AllCalls :
        /\ c < d
        /\ calls[c].kind \in QueryKinds /\ calls[c].cacheable /\ calls[d].cacheable
        /\ calls[c].file = calls[d].file /\ KeyOf(calls[c]) = KeyOf(calls[d])
        /\ calls[c].entry # 0 /\ calls[c].entry = calls[d].entry
        /\ calls[c].ret # NoRet /\ calls[d].ret # NoRet
        /\ Unresolved(c) /\ Unresolved(d)
        => /\ calls[d].ret = calls[c].ret
           /\ calls[d].proc = 0

C3_OneInFlightPerSlot ==
    \A e \in 1..Len(entries), k \in Keys :
        Cardinality({c \in Creators(e, k) : calls[c].val = Pending}) <= 1

\* C4: a caller served from the slot of a cache entry and key while the first
\* invocation stored under that key is still in flight holds the promise of that first
\* invocation, never the promise of a newer invocation for the key.
C4_FirstInvocationIsServed ==
    \A d \in AllCalls :
        LET r == calls[d] IN
        /\ r.entry # 0 /\ r.ret > 0 /\ r.ret # d
        /\ KeyOf(calls[r.ret]) = KeyOf(r)
        /\ calls[Min(Creators(r.entry, KeyOf(r)))].val = Pending
        => r.ret = Min(Creators(r.entry, KeyOf(r)))

\* C5: a query issued after an index change for a file that had a cache entry at the
\* change is never handed a subprocess that was already running at the change: the
\* Process Runner spawns a new one for it.
C5_QueryAfterIndexChangeSpawns ==
    \A c \in AllCalls :
        calls[c].kind \in QueryKinds /\ calls[c].proc # 0 => ~calls[c].late

\* C6: when the index-change handler has fired the cache-changed event, its
\* subscribers find no cached file entry and no cached remotes.
C6_IndexChangeClearsBothCaches ==
    fired.src = "index" =>
        /\ fired.changed
        /\ fired.sawFiles = {} /\ CachedFiles(gitCache) = {}
        /\ fired.sawRemotes = {} /\ DOMAIN remotesCache = {}

\* every cached slot of entry e is an error placeholder
OnlyPlaceholders(e) == \A k \in Keys : entries[e][k] # NoSlot => entries[e][k] = ErrorPlaceholder

\* C7: a document-save event for file F with caching enabled preserves F's entry and
\* fires no cache-changed event if every cached slot of the entry is an error
\* placeholder; otherwise it removes F's entry and no other, and then fires the
\* cache-changed event; if F has no entry it removes nothing and fires no event.
C7_SaveEvictsUnlessOnlyErrors ==
    [][\A f \in Files :
          caching /\ RemoveCachedEntry(f, "saved", TRUE) =>
              IF gitCache[f] = 0 \/ OnlyPlaceholders(gitCache[f])
              THEN gitCache' = gitCache /\ ~fired'.changed
              ELSE /\ gitCache' = [gitCache EXCEPT ![f] = 0]
                   /\ fired'.changed
                   /\ fired'.sawFiles = CachedFiles(gitCache) \ {f}]_vars

\* a save has just left an entry of error placeholders in the cache, without an event,
\* while another file is cached too
C7_Witness ==
    /\ fired.src = "saved" /\ ~fired.removed /\ ~fired.changed
    /\ gitCache[fired.file] # 0
    /\ OnlyPlaceholders(gitCache[fired.file])
    /\ CachedFiles(gitCache) # {fired.file}

\* C8: a document-close event for file F removes F's cache entry and no other, fires
\* no cache-changed event and leaves every entry's cached promises as they were; a
\* query that finds its slot cached is served the cached promise without a new
\* subprocess invocation.
C8_CloseEvictsOnlyItsFile ==
    [][/\ \A f \in Files :
             caching /\ RemoveCachedEntry(f, "closed", TRUE) =>
                 /\ gitCache' = [gitCache EXCEPT ![f] = 0]
                 /\ entries' = entries
                 /\ ~fired'.changed
       /\ \A q \in EvictQueries :
             /\ EvictQuery(q[1], q[2], q[3], q[4])
             /\ gitCache[q[2]] # 0 /\ HasSlot(gitCache[q[2]], <<q[1], q[3]>>)
             => /\ procs' = procs /\ pendingCommands' = pendingCommands
                /\ calls'[Len(calls')].pc = "done"
                /\ calls'[Len(calls')].ret = entries[gitCache[q[2]]][<<q[1], q[3]>>].item]_vars

\* after the close of one file removed its entry, a query for another file was served
\* from that file's entry
C8_Witness ==
    \E d \in AllCalls :
        /\ calls[d].pc = "done" /\ calls[d].ret \notin {d, NoRet} /\ calls[d].proc = 0
        /\ calls[d].after # <<>>
        /\ calls[d].after[1] = "closed" /\ calls[d].after[2] # calls[d].file

\* C9: while caching is disabled the per-file cache and the remotes cache are empty and
\* the save/close listeners and the index-file watcher are removed, whatever queries
\* started under caching complete in the meantime.
C9_DisabledCachingKeepsCachesEmpty ==
    ~caching =>
        /\ CachedFiles(gitCache) = {}
        /\ DOMAIN remotesCache = {}
        /\ ~cacheDisposable
        /\ ~fsWatcher

\* with caching disabled, a blame started under caching has just failed and left its
\* placeholder in the entry it had captured
C9_Witness ==
    /\ ~caching
    /\ fired.blameFail # {}
    /\ \E c \in AllCalls :
           /\ calls[c].entry # 0 /\ calls[c].pc = "done"
           /\ entries[calls[c].entry][KeyOf(calls[c])] = ErrorPlaceholder

\* C10: with caching enabled, the failure of a blame, log or diff query replaces the
\* promise stored under its key by the pre-resolved empty placeholder with the error
\* message; a placeholder is never replaced within its entry; and a request that finds
\* the placeholder under its key returns the empty promise, which resolves to the
\* empty result, without a subprocess invocation.
C10_FailureIsCached ==
    [][/\ \A c \in AllCalls :
             /\ AfterGitQuery(c)
             /\ procs[calls[c].proc].st = "fail" /\ calls[c].entry # 0
             => /\ entries'[calls[c].entry][KeyOf(calls[c])] = ErrorPlaceholder
                /\ calls'[c].val = Undefined
       /\ \A e \in 1..Len(entries), k \in Keys :
             entries[e][k].err => entries'[e][k] = ErrorPlaceholder
       /\ \A q \in Queries :
             /\ Query(q[1], q[2], q[3], q[4])
             /\ caching /\ q[4]
             /\ gitCache[q[2]] # 0 /\ entries[gitCache[q[2]]][<<q[1], q[3]>>].err
             => /\ procs' = procs /\ pendingCommands' = pendingCommands
                /\ calls'[Len(calls')].pc = "done"
                /\ calls'[Len(calls')].ret = EmptyPromise
                /\ ValueOf(EmptyPromise) = Undefined]_vars

\* a request was served the empty promise from the placeholder a failed query left
C10_Witness ==
    \E c, d \in AllCalls :
        /\ c < d
        /\ calls[c].entry # 0
        /\ calls[c].entry = calls[d].entry /\ KeyOf(calls[c]) = KeyOf(calls[d])
        /\ calls[c].proc # 0 /\ procs[calls[c].proc].st = "fail"
        /\ entries[calls[c].entry][KeyOf(calls[c])] = ErrorPlaceholder
        /\ calls[d].pc = "done" /\ calls[d].ret = EmptyPromise /\ calls[d].proc = 0

\* C11: whenever the catch block of a blame, log or diff query has run, the service has
\* fired a failure notification for the file of the failed query (onDidBlameFail is
\* the only failure event the service has).
C11_FailureIsNotified ==
    [][\A c \in AllCalls :
          AfterGitQuery(c) /\ procs[calls[c].proc].st = "fail"
              => calls[c].file \in fired'.blameFail]_vars

\* C12: a blame or log query issued while the current .gitignore matcher is loaded and
\* matches the file does not reach the Process Runner, and a settled promise it is
\* served holds the empty result.
C12_IgnoredFileYieldsEmpty ==
    [][\A q \in ConfigQueries :
          /\ Query(q[1], q[2], q[3], q[4])
          /\ q[1] \in {"blame", "log"}
          /\ IgnoreLoaded /\ q[2] \in gitignore[Len(gitignore)].rules
          => /\ procs' = procs
             /\ LET r == calls'[Len(calls')] IN
                    r.ret # NoRet /\ r.ret <= Len(calls) /\ Settled(r.ret)
                        => ValueOf(r.ret) = Undefined]_vars

\* C13: every getBlameForFile call that short-circuits because the loaded matcher
\* matches its file fires the blame-failed notification for the file.
C13_IgnoredBlameIsNotified ==
    [][\A c \in AllCalls :
          /\ AfterIgnore(c)
          /\ calls[c].kind = "blame"
          /\ calls[c].file \in gitignore[calls[c].ign].rules
          => calls[c].file \in fired'.blameFail]_vars

\* ---------------------------------------------------------------- getBlameForRangeSync
MaxLines == 4
BlameShas == {"A", "B", "C"}
Authors == {"x", "y"}

\* IGitBlame as the blame parser builds it from the owner of every line: lines[i] is
\* the record of line i (0-based), commits holds one commit per revision in order of
\* first appearance, each with its own line records, authors the line counts per author
RECURSIVE FirstSeen(_, _)
FirstSeen(owner, seen) ==
    IF owner = <<>> THEN <<>>
    ELSE IF Head(owner) \in seen THEN FirstSeen(Tail(owner), seen)
    ELSE <<Head(owner)>> \o FirstSeen(Tail(owner), seen \cup {Head(owner)})

LinesOf(lines, sha) == LET Owned(l) == l.sha = sha IN SelectSeq(lines, Owned)

\* authors.get(commit.author) / authors.set / author.lineCount += commit.lines.length,
\* over the commits in iteration order
RECURSIVE CountAuthors(_, _)
CountAuthors(commits, authors) ==
    IF commits = <<>> THEN authors
    ELSE LET c == Head(commits)
             known == {i \in 1..Len(authors) : authors[i].name = c.author}
         IN CountAuthors(Tail(commits),
                IF known = {}
                THEN Append(authors, [name |-> c.author, lineCount |-> Len(c.lines)])
                ELSE [i \in 1..Len(authors) |->
                         IF i \in known
                         THEN [authors[i] EXCEPT !.lineCount = @ + Len(c.lines)]
                         ELSE authors[i]])

\* Array.from(authors.values()).sort((a, b) => b.lineCount - a.lineCount)
RECURSIVE SortDescending(_)
SortDescending(authors) ==
    IF authors = <<>> THEN <<>>
    ELSE LET rest == SortDescending(Tail(authors))
             a == Head(authors)
             before == {i \in 1..Len(rest) : rest[i].lineCount > a.lineCount}
             k == Cardinality(before)
         IN SubSeq(rest, 1, k) \o <<a>> \o SubSeq(rest, k + 1, Len(rest))

MakeBlame(owner, authorOf) ==
    LET lines == [i \in 1..Len(owner) |-> [sha |-> owner[i], line |-> i - 1]]
        shas == FirstSeen(owner, {})
        commits == [k \in 1..Len(shas) |->
                       [sha |-> shas[k], author |-> authorOf[shas[k]],
                        lines |-> LinesOf(lines, shas[k])]]
    IN [lines |-> lines, commits |-> commits,
        authors |-> SortDescending(CountAuthors(commits, <<>>))]

\* a slice that takes the element at index `to` too
Slice_Inclusive(arr, from, to) ==
    SubSeq(arr, from + 1, IF to + 1 < Len(arr) THEN to + 1 ELSE Len(arr))
\* Array.prototype.slice(from, to) for 0 <= from
Slice(arr, from, to) ==
    SubSeq(arr, from + 1, IF to < Len(arr) THEN to ELSE Len(arr))

\* a range restriction that keeps the author aggregation of the whole file
getBlameForRangeSync_WholeAuthors(blame, start, end) ==
    IF Len(blame.lines) = 0 \/ (start = 0 /\ end = Len(blame.lines) - 1)
    THEN [authors |-> blame.authors, commits |-> blame.commits, lines |-> blame.lines,
          allLines |-> blame.lines]
    ELSE LET lines == Slice(blame.lines, start, end + 1)
             shas == {lines[i].sha : i \in 1..Len(lines)}
             Touched(c) == c.sha \in shas
             InRange(l) == l.line >= start /\ l.line <= end
             kept == SelectSeq(blame.commits, Touched)
             commits == [k \in 1..Len(kept) |->
                            [kept[k] EXCEPT !.lines = SelectSeq(@, InRange)]]
         IN [authors |-> blame.authors,
             commits |-> commits, lines |-> lines, allLines |-> blame.lines]
\* GitService.getBlameForRangeSync(blame, uri, range), range = [start, end]
getBlameForRangeSync(blame, start, end) ==
    IF Len(blame.lines) = 0 \/ (start = 0 /\ end = Len(blame.lines) - 1)
    THEN [authors |-> blame.authors, commits |-> blame.commits, lines |-> blame.lines,
          allLines |-> blame.lines]
    ELSE LET lines == Slice(blame.lines, start, end + 1)
             shas == {lines[i].sha : i \in 1..Len(lines)}
             Touched(c) == c.sha \in shas
             InRange(l) == l.line >= start /\ l.line <= end
             kept == SelectSeq(blame.commits, Touched)
             commits == [k \in 1..Len(kept) |->
                            [kept[k] EXCEPT !.lines = SelectSeq(@, InRange)]]
         IN [authors |-> SortDescending(CountAuthors(commits, <<>>)),
             commits |-> commits, lines |-> lines, allLines |-> blame.lines]

\* the blame of the example: revision A owns lines 0-49, revision B lines 50-99
ExampleOwner == [i \in 1..100 |-> IF i <= 50 THEN "A" ELSE "B"]
ExampleRange == <<10, 60>>

Owners == UNION {[1..n -> BlameShas] : n \in 0..MaxLines}

InitRange ==
    /\ InitService
    /\ \E authorOf \in [BlameShas -> Authors] :
          \/ \E owner \in Owners, start \in 0..MaxLines, end \in 0..MaxLines :
                /\ start <= end
                /\ pure = [op |-> "blame", owner |-> owner, authorOf |-> authorOf,
                           blame |-> MakeBlame(owner, authorOf),
                           start |-> start, end |-> end]
          \/ pure = [op |-> "blame", owner |-> ExampleOwner, authorOf |-> authorOf,
                     blame |-> MakeBlame(ExampleOwner, authorOf),
                     start |-> ExampleRange[1], end |-> ExampleRange[2]]

\* a caller holding a whole-file blame restricts it to a range
GetBlameForRangeSync ==
    /\ pure.op = "blame"
    /\ pure' = [op |-> "blameForRange", owner |-> pure.owner, authorOf |-> pure.authorOf,
                blame |-> pure.blame, start |-> pure.start, end |-> pure.end,
                out |-> getBlameForRangeSync(pure.blame, pure.start, pure.end)]
    /\ UNCHANGED <<caching, cacheDisposable, fsWatcher, gitCache, entries, remotesCache,
                   gitignore, calls, procs, pendingCommands, microtasks, fired>>

NextRange == GetBlameForRangeSync

SpecRange == InitRange /\ [][NextRange]_vars

RECURSIVE SumLines(_, _)
SumLines(commits, name) ==
    IF commits = <<>> THEN 0
    ELSE (IF Head(commits).author = name THEN Len(Head(commits).lines) ELSE 0)
         + SumLines(Tail(commits), name)

\* C14: for a whole-file blame and a range [start, end] that is not the whole file,
\* getBlameForRangeSync returns exactly the revisions that own a line in the range,
\* each once, as a commit whose lines are exactly that revision's lines in the range,
\* with one author record per author of those commits, its count the sum of their
\* line counts, in descending order of count; for the example (A owns 0-49, B owns
\* 50-99, range [10, 60]) these are A with 40 and B with 11 lines; no subprocess is
\* invoked and the input blame is as the parser built it.
C14_RangeBlameIsRestriction ==
    pure.op = "blameForRange"
    /\ Len(pure.blame.lines) # 0
    /\ ~(pure.start = 0 /\ pure.end = Len(pure.blame.lines) - 1)
    =>
    LET out == pure.out
        n == Len(pure.owner)
        inRange == {i \in 0..(n - 1) : pure.start <= i /\ i <= pure.end}
        owning == {pure.owner[i + 1] : i \in inRange}
        LinesIn(sha) == {i \in inRange : pure.owner[i + 1] = sha}
    IN
    /\ {out.commits[k].sha : k \in 1..Len(out.commits)} = owning
    /\ Len(out.commits) = Cardinality(owning)
    /\ \A k \in 1..Len(out.commits) :
           LET c == out.commits[k] IN
           /\ c.author = pure.authorOf[c.sha]
           /\ Len(c.lines) = Cardinality(LinesIn(c.sha))
           /\ {c.lines[j] : j \in 1..Len(c.lines)}
                  = {[sha |-> c.sha, line |-> i] : i \in LinesIn(c.sha)}
    /\ {out.authors[j].name : j \in 1..Len(out.authors)}
           = {pure.authorOf[sha] : sha \in owning}
    /\ \A i, j \in 1..Len(out.authors) :
           /\ i # j => out.authors[i].name # out.authors[j].name
           /\ i < j => out.authors[i].lineCount >= out.authors[j].lineCount
           /\ out.authors[i].lineCount = SumLines(out.commits, out.authors[i].name)
    /\ (pure.owner = ExampleOwner /\ <<pure.start, pure.end>> = ExampleRange =>
           /\ Len(out.commits) = 2
           /\ out.commits[1].sha = "A" /\ Len(out.commits[1].lines) = 40
           /\ out.commits[2].sha = "B" /\ Len(out.commits[2].lines) = 11)
    /\ procs = <<>> /\ DOMAIN pendingCommands = {}
    /\ pure.blame = MakeBlame(pure.owner, pure.authorOf)

\* a range that drops one revision of the file and cuts into another one, with the
\* two remaining revisions by different authors
C14_Witness ==
    /\ pure.op = "blameForRange"
    /\ Len(pure.out.commits) = 2 /\ Len(pure.blame.commits) = 3
    /\ Len(pure.out.authors) = 2
    /\ \E k \in 1..2, m \in 1..3 :
           /\ pure.out.commits[k].sha = pure.blame.commits[m].sha
           /\ Len(pure.out.commits[k].lines) < Len(pure.blame.commits[m].lines)

\* C15: the promise of a blame, log or diff query whose subprocess failed with an
\* error that matches no benign pattern is rejected with that error.
C15_UnexpectedFailurePropagates ==
    \A c \in AllCalls :
        /\ calls[c].kind \in QueryKinds
        /\ calls[c].pc = "done" /\ calls[c].proc # 0
        /\ procs[calls[c].proc].st = "fail"
        => calls[c].val = Rejected

\* C16: a call with the default error handling resolves to the empty string when the
\* subprocess fails with a text matching a known warning, is rejected with the error
\* for every other failure, and callers that joined one invocation are classified alike.
C16_DefaultHandlerClassifies ==
    \A c \in AllCalls :
        calls[c].kind = "contents" /\ calls[c].pc = "done"
        => LET ex == procs[calls[c].proc].ex IN
           /\ ex.thrown /\ ex.text /\ ex.matches \cap GitWarnings # {}
                  => calls[c].val = EmptyOutput
           /\ ex.thrown /\ ~(ex.text /\ ex.matches \cap GitWarnings # {})
                  => calls[c].val = Rejected
           /\ \A d \in AllCalls :
                  /\ calls[d].kind = "contents" /\ calls[d].pc = "done"
                  /\ calls[d].proc = calls[c].proc
                  => calls[d].val = calls[c].val

C16_Witness ==
    \E c, d \in AllCalls :
        /\ c # d
        /\ calls[c].kind = "contents" /\ calls[d].kind = "contents"
        /\ calls[c].pc = "done" /\ calls[d].pc = "done"
        /\ calls[c].proc = calls[d].proc
        /\ procs[calls[c].proc].ex.thrown
        /\ procs[calls[c].proc].ex.matches # {}
        /\ calls[c].val = EmptyOutput /\ calls[d].val = EmptyOutput

\* the number of positions of argument vector a that hold x
Occurrences(a, x) == Cardinality({i \in DOMAIN a : a[i] = x})

\* C17: every subprocess spawned receives -c core.quotepath=false -c color.ui=false as
\* its leading arguments, ahead of the caller's arguments and exactly once, for every
\* command and also when other callers join the pending invocation.
C17_SafetyArgsLeadExactlyOnce ==
    \A p \in AllProcs :
        LET a == procs[p].argv IN
        /\ Len(a) = Len(SafetyArgs) + Len(procs[p].cmd.args)
        /\ SubSeq(a, 1, Len(SafetyArgs)) = SafetyArgs
        /\ SubSeq(a, Len(SafetyArgs) + 1, Len(a)) = procs[p].cmd.args
        /\ Occurrences(a, "core.quotepath=false") = 1
        /\ Occurrences(a, "color.ui=false") = 1

C17_Witness ==
    \E c, d \in AllCalls :
        /\ c # d
        /\ calls[c].proc # 0 /\ calls[c].proc = calls[d].proc
        /\ calls[c].ret = c /\ calls[d].ret = d
        /\ SubSeq(procs[calls[c].proc].argv, 1, 4) = SafetyArgs

\* ---------------------------------------------------------------- Git.isSha
\* strings are sequences of characters
ShaLength == 40
MaxSuffix == 3
HexChars == {"0", "1", "2", "3", "4", "5", "6", "7", "8", "9", "a", "b", "c", "d", "e", "f"}
DigitChars == {"0", "1", "2", "3", "4", "5", "6", "7", "8", "9"}

Repeat(ch, n) == [i \in 1..n |-> ch]
\* '0000000000000000000000000000000000000000' and the same followed by ':'
uncommittedSha == Repeat("0", ShaLength)
stagedUncommittedSha == Repeat("0", ShaLength) \o <<":">>

\* (\^[0-9]*?)?? : nothing, or a caret followed by digits
CaretSuffix(x) == x = <<>> \/ (x[1] = "^" /\ \A i \in 2..Len(x) : x[i] \in DigitChars)
\* ^[chars]{40}(\^[0-9]*?)??<one of tails>$
TestRegex(s, chars, tails) ==
    /\ Len(s) >= ShaLength
    /\ \A i \in 1..ShaLength : s[i] \in chars
    /\ \E k \in ShaLength..Len(s) :
          /\ CaretSuffix(SubSeq(s, ShaLength + 1, k))
          /\ SubSeq(s, k + 1, Len(s)) \in tails

\* /^[0-9a-f]{40}(\^[0-9]*?)??( -)?$/
shaRegex(s) == TestRegex(s, HexChars, {<<>>, <<" ", "-">>})
\* /^[0-9a-f]{40}$/
shaStrictRegex(s) == Len(s) = ShaLength /\ \A i \in 1..ShaLength : s[i] \in HexChars
\* /^[0]{40}(\^[0-9]*?)??:$/
stagedUncommittedRegex(s) == TestRegex(s, {"0"}, {<<":">>})
\* /^[0]{40}(\^[0-9]*?)??:??$/
uncommittedRegex(s) == TestRegex(s, {"0"}, {<<>>, <<":">>})

isSha(sha) == shaRegex(sha)
isStagedUncommitted(sha) == stagedUncommittedRegex(sha)
isUncommitted(sha) == uncommittedRegex(sha)

\* the strings the predicates are applied to: forty or thirty-nine characters, all
\* alike or zeros with one other character, followed by up to MaxSuffix characters
HeadChars == {"0", "a", "9", "g"}
SuffixChars == {"^", "0", "7", ":", " ", "-", "g"}
ShaHeads ==
    {Repeat(ch, n) : ch \in HeadChars, n \in {ShaLength - 1, ShaLength}}
    \cup {[Repeat("0", ShaLength) EXCEPT ![i] = ch] :
              i \in {1, ShaLength \div 2, ShaLength}, ch \in HeadChars}
ShaSuffixes == UNION {[1..n -> SuffixChars] : n \in 0..MaxSuffix}

InitSha ==
    /\ InitService
    /\ \E head \in ShaHeads, suffix \in ShaSuffixes :
          pure = [op |-> "sha", sha |-> head \o suffix]

\* a caller classifies a revision string
ClassifySha ==
    /\ pure.op = "sha"
    /\ pure' = [op |-> "classified", sha |-> pure.sha,
                isSha |-> isSha(pure.sha),
                isUncommitted |-> isUncommitted(pure.sha),
                isStagedUncommitted |-> isStagedUncommitted(pure.sha)]
    /\ UNCHANGED <<caching, cacheDisposable, fsWatcher, gitCache, entries, remotesCache,
                   gitignore, calls, procs, pendingCommands, microtasks, fired>>

NextSha == ClassifySha

SpecSha == InitSha /\ [][NextSha]_vars

\* C18: isSha is true for every 40-character hex revision string; for forty zeros and
\* for forty zeros followed by ':' isSha is false, while isUncommitted is true for forty
\* zeros and isStagedUncommitted is true for forty zeros followed by ':'.
C18_IsShaRejectsSentinels ==
    pure.op = "classified"
    => /\ shaStrictRegex(pure.sha) /\ pure.sha # uncommittedSha => pure.isSha
       /\ pure.sha \in {uncommittedSha, stagedUncommittedSha} => ~pure.isSha
       /\ pure.sha = uncommittedSha => pure.isUncommitted
       /\ pure.sha = stagedUncommittedSha => pure.isStagedUncommitted

\* ---------------------------------------------------------------- log pages
MaxHistory == 3
MaxPage == 3
LogShas == {"C1", "C2", "C3", "C4"}

\* the histories of a file: the commits in traversal order, newest first
Histories ==
    {h \in UNION {[1..n -> LogShas] : n \in 0..MaxHistory} :
        \A i, j \in DOMAIN h : i # j => h[i] # h[j]}

Reverse(s) == [i \in 1..Len(s) |-> s[Len(s) + 1 - i]]
Take(s, n) == SubSeq(s, 1, Min({n, Len(s)}))

\* Git.log_file: `-n${maxCount}` is passed only if maxCount is set and the query is
\* not reversed; the output frames the commits git walks
log_file_Reversed(history, maxCount, reverse) ==
    IF ~reverse THEN Reverse(history)
    ELSE IF maxCount # 0 THEN Take(history, maxCount) ELSE history
log_file(history, maxCount, reverse) ==
    IF reverse THEN Reverse(history)
    ELSE IF maxCount # 0 THEN Take(history, maxCount) ELSE history

\* GitLogParser.parse: the Log of the commits framed in data, at most maxCount of
\* them; hasMore is set when the page size was reached
parse(data, maxCount) ==
    LET commits == IF maxCount # 0 THEN Take(data, maxCount) ELSE data IN
    [commits |-> commits, count |-> Len(commits),
     maxCount |-> maxCount,
     hasMore |-> maxCount # 0 /\ Len(data) >= maxCount]

\* _getLogForFile: await Git.log_file(...), then GitLogParser.parse(data, ...)
getLogForFile(history, maxCount, reverse) ==
    parse(log_file(history, maxCount, reverse), maxCount)

InitLog ==
    /\ InitService
    /\ \E history \in Histories, maxCount \in 0..MaxPage, reverse \in BOOLEAN :
          pure = [op |-> "history", history |-> history, maxCount |-> maxCount,
                  reverse |-> reverse]

\* a caller asks for the first page of the history of a file
GetLogForFile ==
    /\ pure.op = "history"
    /\ pure' = [op |-> "log", history |-> pure.history, maxCount |-> pure.maxCount,
                reverse |-> pure.reverse,
                log |-> getLogForFile(pure.history, pure.maxCount, pure.reverse)]
    /\ UNCHANGED <<caching, cacheDisposable, fsWatcher, gitCache, entries, remotesCache,
                   gitignore, calls, procs, pendingCommands, microtasks, fired>>

NextLog == GetLogForFile

SpecLog == InitLog /\ [][NextLog]_vars

MaxShowMore == 2
\* this.limit before the node has a last known limit
NoLimit == -1

\* Log.more(limit): the continuation of a Log, holding the query and the accumulated
\* count, runs the query again for one more page
more(history, log, limit) == getLogForFile(history, log.count + limit, FALSE)

\* the node before getChildren: _log undefined, no showMore in flight
InitNode ==
    /\ InitService
    /\ \E history \in Histories :
          pure = [op |-> "node", history |-> history, loaded |-> FALSE,
                  log |-> parse(<<>>, 0), limit |-> NoLimit, showMore |-> <<>>,
                  prev |-> <<>>, page |-> <<>>]

\* getLog: this._log = await Container.git.getLog(..., { limit: this.limit ?? defaultItemLimit })
GetLog(defaultItemLimit) ==
    /\ pure.op \in {"node", "more"}
    /\ ~pure.loaded
    /\ pure' = [pure EXCEPT !.op = "node",
                            !.loaded = TRUE,
                            !.log = getLogForFile(pure.history,
                                                  IF pure.limit # NoLimit THEN pure.limit
                                                  ELSE defaultItemLimit,
                                                  FALSE),
                            !.prev = <<>>, !.page = <<>>]
    /\ UNCHANGED <<caching, cacheDisposable, fsWatcher, gitCache, entries, remotesCache,
                   gitignore, calls, procs, pendingCommands, microtasks, fired>>

\* showMore up to `await log.more?.(limit ?? pageItemLimit)`
ShowMoreStart(limit) ==
    /\ pure.op \in {"node", "more"}
    /\ pure.loaded /\ pure.log.hasMore
    /\ Len(pure.showMore) < MaxShowMore
    /\ pure' = [pure EXCEPT !.showMore = Append(@, [log |-> pure.log, limit |-> limit])]
    /\ UNCHANGED <<caching, cacheDisposable, fsWatcher, gitCache, entries, remotesCache,
                   gitignore, calls, procs, pendingCommands, microtasks, fired>>

\* refresh(reset = true): this._log = undefined
Refresh ==
    /\ pure.op \in {"node", "more"}
    /\ pure.loaded
    /\ pure' = [pure EXCEPT !.loaded = FALSE]
    /\ UNCHANGED <<caching, cacheDisposable, fsWatcher, gitCache, entries, remotesCache,
                   gitignore, calls, procs, pendingCommands, microtasks, fired>>

\* showMore from the return of log.more: this._log = log; this.limit = log.count (a
\* Log identical to this._log leaves the node as it is); prev and page record the
\* commits of the Log the continuation belonged to and the commits it added
ShowMoreEnd(i) ==
    /\ pure.op \in {"node", "more"}
    /\ i \in DOMAIN pure.showMore
    /\ LET old == pure.showMore[i].log
           log == more(pure.history, old, pure.showMore[i].limit)
       IN pure' = [pure EXCEPT !.op = "more",
                               !.loaded = TRUE,
                               !.log = log,
                               !.limit = log.count,
                               !.showMore = SubSeq(@, 1, i - 1) \o SubSeq(@, i + 1, Len(@)),
                               !.prev = old.commits,
                               !.page = SubSeq(log.commits, old.count + 1, log.count)]
    /\ UNCHANGED <<caching, cacheDisposable, fsWatcher, gitCache, entries, remotesCache,
                   gitignore, calls, procs, pendingCommands, microtasks, fired>>

NextNode ==
    \/ \E defaultItemLimit \in 0..MaxPage : GetLog(defaultItemLimit)
    \/ Refresh
    \/ \E limit \in 1..MaxPage : ShowMoreStart(limit)
    \/ \E i \in 1..MaxShowMore : ShowMoreEnd(i)

SpecNode == InitNode /\ [][NextNode]_vars

\* the place of commit c in the traversal
Position(history, c) == CHOOSE i \in DOMAIN history : history[i] = c

C21_ScopedRequestReusesWholeFile ==
    [][/\ \A q \in Queries :
             LET e == gitCache[q[2]] IN
             /\ Query(q[1], q[2], q[3], q[4])
             /\ caching /\ q[4] /\ q[1] \in {"blame", "log"} /\ q[3] # NoSha
             /\ e # 0 /\ ~HasSlot(e, <<q[1], q[3]>>) /\ HasSlot(e, WholeKey(q[1]))
             => LET r == calls'[Len(calls')] IN
                /\ r.pc = "awaitWhole" /\ r.wait = entries[e][WholeKey(q[1])].item
                /\ r.ret = NoRet /\ r.proc = 0
                /\ procs' = procs /\ entries' = entries
       /\ \A c \in AllCalls :
             ResumeWhole(c)
             => LET r == calls[c]
                    v == ValueOf(r.wait)
                IN
                /\ Settled(r.wait)
                /\ procs' = procs
                /\ IF v > 0 /\ r.sha \in procs[v].has
                   THEN /\ calls'[c].ret = r.wait /\ calls'[c].pc = "done"
                        /\ calls'[c].proc = 0
                        /\ entries' = entries
                   ELSE /\ calls'[c].ret = c /\ calls'[c].pc = "awaitIgnore"
                        /\ entries'[r.entry][KeyOf(r)].item = c]_vars

C21_Witness ==
    \E c \in AllCalls :
        /\ calls[c].sha # NoSha /\ calls[c].wait # 0
        /\ calls[c].pc = "done" /\ calls[c].ret = calls[c].wait
        /\ calls[c].proc = 0
        /\ ValueOf(calls[c].wait) > 0

\* the entry of file f holds nothing but requests that were short-circuited because
\* the file is gitignored, a blame request among them
OnlyIgnoredRequests(f) ==
    LET e == gitCache[f] IN
    /\ e # 0
    /\ HasSlot(e, WholeKey("blame"))
    /\ \A k \in Keys :
          HasSlot(e, k) =>
              LET c == entries[e][k].item IN
              /\ c > 0
              /\ calls[c].pc = "done" /\ calls[c].proc = 0
              /\ calls[c].val = Undefined
              /\ calls[c].file \in gitignore[calls[c].ign].rules

\* C22: after a blame request for a gitignored file has been cached, a document-save
\* event for that file preserves the entry and fires no cache-changed event.
C22_SaveKeepsIgnoredEntry ==
    [][\A f \in Files :
          /\ caching /\ OnlyIgnoredRequests(f)
          /\ RemoveCachedEntry(f, "saved", TRUE)
          => gitCache' = gitCache /\ ~fired'.changed]_vars

\* C23: the Process Runner merges two concurrent calls into one subprocess only when
\* working directory, argument list and standard input are the same; calls whose
\* stdin contents differ each get a result computed from their own input.
C23_MergesOnlySameStdin ==
    \A c \in AllCalls :
        calls[c].kind = "contents" /\ calls[c].proc # 0
        => /\ procs[calls[c].proc].stdin = calls[c].stdin
           /\ procs[calls[c].proc].cmd.cwd = CommandOf(calls[c]).cwd
           /\ procs[calls[c].proc].cmd.args = ArgsOf(calls[c])

\* C24: a failure that arrives after the entry of its query was evicted or the cache
\* was cleared changes no entry that is in the cache map, and every error placeholder
\* in an entry of the map comes from a failed query issued against that entry.
C24_LateFailureSparesNewEntry ==
    [][/\ \A c \in AllCalls :
             AfterGitQuery(c) /\ calls[c].entry # gitCache[calls[c].file]
             => \A f \in Files :
                    gitCache[f] # 0 => entries'[gitCache[f]] = entries[gitCache[f]]
       /\ \A f \in Files, k \in Keys :
             gitCache[f] # 0 /\ entries[gitCache[f]][k].err
             => \E c \in AllCalls :
                    /\ calls[c].entry = gitCache[f] /\ KeyOf(calls[c]) = k
                    /\ calls[c].file = f
                    /\ calls[c].pc = "done" /\ calls[c].proc # 0
                    /\ procs[calls[c].proc].st = "fail"]_vars

\* the failure of a query left its placeholder in an entry that is no longer in the
\* map, while the map holds a newer entry for the same file
C24_Witness ==
    \E c \in AllCalls :
        /\ calls[c].entry # 0 /\ calls[c].pc = "done" /\ calls[c].proc # 0
        /\ procs[calls[c].proc].st = "fail"
        /\ entries[calls[c].entry][KeyOf(calls[c])] = ErrorPlaceholder
        /\ gitCache[calls[c].file] \notin {0, calls[c].entry}
        /\ ~entries[gitCache[calls[c].file]][KeyOf(calls[c])].err

\* ---------------------------------------------------------------- git(): finally
\* The steps of git() after `await promise`, one caller at a time: the promise of
\* run() settles and queues the continuation of every call awaiting it; each
\* continuation runs catch and finally and returns to its caller, whose own
\* continuation is queued behind the ones already waiting.
MaxPendingCalls == 3

\* the promise of run() settles with the output or with exception ex
RunSettles(p, ex) ==
    /\ p \in 1..Len(procs)
    /\ Running(p)
    /\ ~MicrotasksPending
    /\ procs' = [procs EXCEPT ![p].st = Outcome(ex), ![p].ex = ex]
    /\ calls' = [c \in 1..Len(calls) |->
                    IF calls[c].pc = "awaitGit" /\ calls[c].proc = p
                    THEN [calls[c] EXCEPT !.pc = "gitSettled"]
                    ELSE calls[c]]
    /\ microtasks' = InOrder({c \in 1..Len(calls) :
                                 calls[c].pc = "awaitGit" /\ calls[c].proc = p})
    /\ fired' = NoFire
    /\ UNCHANGED <<pure, caching, cacheDisposable, fsWatcher, gitCache, entries, remotesCache,
                   gitignore, pendingCommands>>

\* a git() without the finally block
GitFinally_NoDelete(c) ==
    LET r == calls[c] IN
    /\ microtasks # <<>> /\ c = Head(microtasks)
    /\ r.pc = "gitSettled"
    /\ calls' = [calls EXCEPT ![c].pc = "returned",
                              ![c].val = IF procs[r.proc].ex.thrown
                                         THEN defaultExceptionHandler(procs[r.proc].ex)
                                         ELSE r.proc]
    /\ microtasks' = Append(Tail(microtasks), c)
    /\ fired' = NoFire
    /\ UNCHANGED <<pure, caching, cacheDisposable, fsWatcher, gitCache, entries, remotesCache,
                   gitignore, procs, pendingCommands>>
\* git() from the return of `await promise`: the value or the handler's result, then
\* finally { pendingCommands.delete(command) }
GitFinally(c) ==
    LET r == calls[c] IN
    /\ microtasks # <<>> /\ c = Head(microtasks)
    /\ r.pc = "gitSettled"
    /\ calls' = [calls EXCEPT ![c].pc = "returned",
                              ![c].val = IF procs[r.proc].ex.thrown
                                         THEN defaultExceptionHandler(procs[r.proc].ex)
                                         ELSE r.proc]
    /\ pendingCommands' = MapDelete(pendingCommands, CommandOf(r))
    /\ microtasks' = Append(Tail(microtasks), c)
    /\ fired' = NoFire
    /\ UNCHANGED <<pure, caching, cacheDisposable, fsWatcher, gitCache, entries, remotesCache,
                   gitignore, procs>>

\* Git.blame_contents called from an event
BlameContentsCall(file, ck, contents) ==
    /\ Len(calls) < MaxPendingCalls
    /\ BlameContents(file, ck, contents)

\* the continuation of the caller of Git.blame_contents, which may run the same
\* command again
CallerResumes(c, again) ==
    LET r == calls[c]
        n == Len(calls) + 1
        done == [calls EXCEPT ![c].pc = "done"]
    IN
    /\ microtasks # <<>> /\ c = Head(microtasks)
    /\ r.pc = "returned"
    /\ microtasks' = Tail(microtasks)
    /\ fired' = NoFire
    /\ UNCHANGED <<pure, caching, cacheDisposable, fsWatcher, gitCache, entries, remotesCache,
                   gitignore>>
    /\ IF again /\ Len(calls) < MaxPendingCalls
       THEN /\ calls' = Append(done, [r EXCEPT !.pc = "awaitGit", !.ret = n, !.val = Pending,
                                               !.proc = GitProc(CommandOf(r))])
            /\ GitSpawn(CommandOf(r), r.stdin)
       ELSE /\ calls' = done
            /\ UNCHANGED <<procs, pendingCommands>>

NextPending ==
    \/ \E file \in Files, ck \in {NoKey, "k1"} : BlameContentsCall(file, ck, "v1")
    \/ \E p \in 1..Len(procs), st \in {"ok", "benign", "fail"} :
           RunSettles(p, IF st = "ok" THEN NoError
                         ELSE [thrown |-> TRUE, text |-> TRUE,
                               matches |-> IF st = "benign" THEN {"notFound"} ELSE {}])
    \/ \E c \in 1..Len(calls) : GitFinally(c)
    \/ \E c \in 1..Len(calls), again \in BOOLEAN : CallerResumes(c, again)

SpecPending == Init /\ [][NextPending]_vars

\* every running subprocess holds the entry of its key, and an entry whose subprocess
\* has settled is one that no caller's continuation has run for yet
PendingIsRunning ==
    /\ \A p \in AllProcs :
          Running(p) => /\ procs[p].cmd \in DOMAIN pendingCommands
                        /\ pendingCommands[procs[p].cmd] = p
    /\ \A K \in DOMAIN pendingCommands :
          \/ Running(pendingCommands[K])
          \/ \A c \in AllCalls :
                 calls[c].proc = pendingCommands[K] => calls[c].pc = "gitSettled"
    /\ ~MicrotasksPending =>
          \A K \in DOMAIN pendingCommands : Running(pendingCommands[K])

\* C25: pendingCommands holds key K exactly while a subprocess for K runs: the entry
\* is removed by the first continuation after the invocation settles, however it
\* settled, so a later identical call spawns a new subprocess; and the cleanup of a
\* caller that had joined never removes the entry of a newer invocation.
C25_PendingExactlyWhileRunning ==
    [][/\ PendingIsRunning /\ PendingIsRunning'
       /\ \A c \in AllCalls :
             GitFinally(c) => CommandOf(calls[c]) \notin DOMAIN pendingCommands'
       /\ Len(calls') > Len(calls) => procs'[calls'[Len(calls')].proc].st = "run"]_vars

\* after two callers of one settled invocation have both run their cleanup, a newer
\* invocation for the same key is running and holds the entry
C25_Witness ==
    \E c, d, n \in AllCalls :
        /\ c # d /\ calls[c].proc = calls[d].proc
        /\ ~Running(calls[c].proc)
        /\ calls[c].pc \in {"returned", "done"} /\ calls[d].pc \in {"returned", "done"}
        /\ CommandOf(calls[n]) = CommandOf(calls[c])
        /\ calls[n].proc # calls[c].proc /\ Running(calls[n].proc)
        /\ pendingCommands[CommandOf(calls[n])] = calls[n].proc

\* ---------------------------------------------------------------- getLogForFile: cache
\* The cache entry of one file under getLogForFile requests with a revision and a
\* maximum count, with promises taken at their settled values.
MaxLogCalls == 3
\* maxCount === undefined
NoCount == -1
LogCounts == {NoCount} \cup 0..MaxPage
LogRefs == {NoSha, "C1", "C2"}

\* key = 'log' + (sha !== undefined ? `:${sha}` : '') + (maxCount !== undefined ? `:n${maxCount}` : '')
LogKey(sha, maxCount) == <<sha, maxCount>>
LogKeys == LogRefs \X LogCounts

\* a slot that is not set, and the value of a promise that resolved to undefined
NoLogSlot == [set |-> FALSE, defined |-> FALSE, log |-> parse(<<>>, 0)]
UndefinedLog == [set |-> TRUE, defined |-> FALSE, log |-> parse(<<>>, 0)]

\* the commits git walks from revision sha
FromRef(history, sha) ==
    IF sha = NoSha THEN history
    ELSE SubSeq(history, Position(history, sha), Len(history))

\* _getLogForFile for a repository with the given history: the parsed log, or
\* undefined when git fails on an unknown revision
InvokeLog(history, sha, maxCount) ==
    IF sha # NoSha /\ sha \notin Range(history) THEN UndefinedLog
    ELSE [set |-> TRUE, defined |-> TRUE,
          log |-> getLogForFile(FromRef(history, sha),
                                IF maxCount = NoCount THEN 0 ELSE maxCount, FALSE)]

InitLogCache ==
    /\ InitService
    /\ \E history \in Histories :
          pure = [op |-> "logCache", history |-> history, n |-> 0,
                  cache |-> [k \in LogKeys |-> NoLogSlot],
                  sha |-> NoSha, maxCount |-> NoCount, how |-> "none", out |-> NoLogSlot]

\* getLogForFile(repoPath, fileName, sha, maxCount) with caching on, no range, not
\* reversed: the slot of the exact key, the whole-file log, or a new invocation
GetLogForFileCached(sha, maxCount) ==
    LET key == LogKey(sha, maxCount)
        whole == pure.cache[<<NoSha, NoCount>>]
        new == InvokeLog(pure.history, sha, maxCount)
        asked == [pure EXCEPT !.op = "logCached", !.n = @ + 1,
                              !.sha = sha, !.maxCount = maxCount]
    IN
    /\ pure.op \in {"logCache", "logCached"}
    /\ pure.n < MaxLogCalls
    /\ pure' = IF pure.cache[key].set
               THEN [asked EXCEPT !.how = "exact", !.out = pure.cache[key]]
               ELSE IF /\ key # <<NoSha, NoCount>> /\ whole.set
                       /\ \/ sha = NoSha
                          \/ whole.defined /\ sha \in Range(whole.log.commits)
               THEN [asked EXCEPT !.how = "whole", !.out = whole]
               ELSE [asked EXCEPT !.how = "invoke", !.out = new, !.cache[key] = new]
    /\ UNCHANGED <<caching, cacheDisposable, fsWatcher, gitCache, entries, remotesCache,
                   gitignore, calls, procs, pendingCommands, microtasks, fired>>

NextLogCache == \E sha \in LogRefs, maxCount \in LogCounts : GetLogForFileCached(sha, maxCount)

SpecLogCache == InitLogCache /\ [][NextLogCache]_vars

\* C26: a getLogForFile request with max-count n never resolves to a log holding more
\* than n commits, whether answered from the cache or by a new invocation.
C26_AtMostMaxCount ==
    pure.op = "logCached" /\ pure.maxCount >= 1 /\ pure.out.defined
    => pure.out.log.count <= pure.maxCount

\* C27: for a blame in which every line has one owning revision and every revision a
\* commit, the sub-blame getBlameForRangeSync returns has a commit for the revision
\* of every line record, at least one line of the range in every commit, and an
\* author record for the author of every commit.
C27_RangeBlameKeepsInvariant ==
    pure.op = "blameForRange"
    => LET out == pure.out
           shas == {out.commits[k].sha : k \in 1..Len(out.commits)}
           names == {out.authors[j].name : j \in 1..Len(out.authors)}
       IN
       /\ \A i \in 1..Len(out.lines) : out.lines[i].sha \in shas
       /\ \A k \in 1..Len(out.commits) :
              LET c == out.commits[k] IN
              /\ Len(c.lines) >= 1
              /\ \A j \in 1..Len(c.lines) :
                     \E i \in 1..Len(out.lines) : out.lines[i] = c.lines[j]
              /\ c.author \in names
       /\ \A j, k \in 1..Len(out.commits) :
              j # k => out.commits[j].sha # out.commits[k].sha

\* a range of one line, owned by one of the three revisions of the file
C27_Witness ==
    /\ pure.op = "blameForRange"
    /\ Len(pure.blame.commits) = 3
    /\ Len(pure.out.lines) = 1 /\ Len(pure.out.commits) = 1
    /\ Len(pure.out.authors) = 1
    /\ pure.start > 0

\* ---------------------------------------------------------------- git version
MaxMajor == 3
MaxMinor == 30
\* Git.validateVersion(2, 11)
PorcelainMajor == 2
PorcelainMinor == 11

\* Git.validateVersion(major, minor) for gitInfo.version = `${gitMajor}.${gitMinor}...`
validateVersion(gitMajor, gitMinor, major, minor) == gitMajor >= major /\ gitMinor >= minor

\* Git.status / Git.status_file: the --porcelain argument
PorcelainArg(porcelainVersion) ==
    IF porcelainVersion >= 2 THEN <<"--porcelain=v", porcelainVersion>> ELSE <<"--porcelain">>

InitVersion ==
    /\ InitService
    /\ \E gitMajor \in 0..MaxMajor, gitMinor \in 0..MaxMinor :
          pure = [op |-> "version", gitMajor |-> gitMajor, gitMinor |-> gitMinor]

\* getStatusForRepo / getStatusForFile up to the call of the Status Parser: the
\* version chosen, the argument passed to git status and the version the parser gets
GetStatus(method) ==
    LET porcelainVersion ==
            IF validateVersion(pure.gitMajor, pure.gitMinor, PorcelainMajor, PorcelainMinor)
            THEN 2 ELSE 1
    IN
    /\ pure.op = "version"
    /\ pure' = [op |-> method, gitMajor |-> pure.gitMajor, gitMinor |-> pure.gitMinor,
                porcelainVersion |-> porcelainVersion,
                arg |-> PorcelainArg(porcelainVersion),
                parsedAs |-> porcelainVersion]
    /\ UNCHANGED <<caching, cacheDisposable, fsWatcher, gitCache, entries, remotesCache,
                   gitignore, calls, procs, pendingCommands, microtasks, fired>>

NextVersion ==
    \/ GetStatus("getStatusForRepo")
    \/ GetStatus("getStatusForFile")

SpecVersion == InitVersion /\ [][NextVersion]_vars

\* C28: getStatusForRepo and getStatusForFile select porcelain version 2 exactly when
\* the git version is at least 2.11 as a version number (2.11, 2.30 and 3.0 select
\* version 2; 2.10 and 1.12 select version 1), and pass the same version to the
\* status command and to the Status Parser.
C28_PorcelainFollowsVersion ==
    pure.op \in {"getStatusForRepo", "getStatusForFile"}
    => /\ pure.porcelainVersion = 2
              <=> \/ pure.gitMajor > 2
                  \/ pure.gitMajor = 2 /\ pure.gitMinor >= 11
       /\ pure.porcelainVersion \in {1, 2}
       /\ pure.arg = IF pure.porcelainVersion = 2
                     THEN <<"--porcelain=v", 2>> ELSE <<"--porcelain">>
       /\ pure.parsedAs = pure.porcelainVersion

\* ---------------------------------------------------------------- Git.show
\* GitErrors.badRevision
GitErrors == {"badRevision"}

\* the refs Git.show is called with: the two sentinels, each also with a caret
\* suffix, ':' as Git.blame passes it, HEAD with and without ':', and a revision
HeadRef == <<"H", "E", "A", "D">>
ShowRefs ==
    {stagedUncommittedSha, uncommittedSha,
     uncommittedSha \o <<"^", ":">>, uncommittedSha \o <<"^">>,
     <<":">>, HeadRef \o <<":">>, HeadRef, Repeat("a", ShaLength)}

\* the exceptions `git show` ends with: the patterns of GitErrors and GitWarnings
\* that the text matches
ShowErrors ==
    {[thrown |-> TRUE, text |-> FALSE, matches |-> {}]}
    \cup {[thrown |-> TRUE, text |-> TRUE, matches |-> m] :
              m \in SUBSET {"badRevision", "notFound", "foundButNotInRevision",
                            "notARepository"}}

\* ref.endsWith(':') ? `${ref}./${file}` : `${ref}:./${file}`
ShowArgs(ref, file) ==
    IF ref # <<>> /\ ref[Len(ref)] = ":"
    THEN <<"show", ref \o <<".", "/">>, file, "--">>
    ELSE <<"show", ref \o <<":", ".", "/">>, file, "--">>

\* Git.show up to `await git(opts, 'show', args, '--')`: the sentinel tests
ShowBegins(st, ref) ==
    LET r == IF isStagedUncommitted(ref) THEN <<":">> ELSE ref IN
    IF isUncommitted(r)
    THEN [st EXCEPT !.op = "shown", !.result = "throws"]
    ELSE [st EXCEPT !.op = "showing", !.ref = r,
                    !.spawned = Append(@, ShowArgs(r, "f1"))]

InitShow ==
    /\ InitService
    /\ \E ref \in ShowRefs :
          pure = [op |-> "show", asked |-> ref, ref |-> ref, spawned |-> <<>>,
                  ended |-> <<>>, result |-> "pending"]

\* Git.show(repoPath, fileName, ref) is called
Show ==
    /\ pure.op = "show"
    /\ pure' = ShowBegins(pure, pure.ref)
    /\ UNCHANGED <<caching, cacheDisposable, fsWatcher, gitCache, entries, remotesCache,
                   gitignore, calls, procs, pendingCommands, microtasks, fired>>

\* a Git.show that retries whatever ref failed
ShowSettles_RetriesAnyRef(ex) ==
    LET st == [pure EXCEPT !.ended = Append(@, ex)] IN
    /\ pure.op = "showing"
    /\ pure' = IF ~ex.thrown
               THEN [st EXCEPT !.op = "shown", !.result = "data"]
               ELSE IF ex.text /\ "badRevision" \in ex.matches
               THEN ShowBegins(st, HeadRef \o <<":">>)
               ELSE IF ex.text /\ ex.matches \cap {"badRevision", "notFound",
                                                   "foundButNotInRevision"} # {}
               THEN [st EXCEPT !.op = "shown", !.result = "undefined"]
               ELSE [st EXCEPT !.op = "shown",
                               !.result = IF defaultExceptionHandler(ex) = EmptyOutput
                                          THEN "empty" ELSE "throws"]
    /\ UNCHANGED <<caching, cacheDisposable, fsWatcher, gitCache, entries, remotesCache,
                   gitignore, calls, procs, pendingCommands, microtasks, fired>>
\* git() returns the data or rethrows ex (throwExceptionHandler); the catch block of
\* Git.show
ShowSettles(ex) ==
    LET st == [pure EXCEPT !.ended = Append(@, ex)] IN
    /\ pure.op = "showing"
    /\ pure' = IF ~ex.thrown
               THEN [st EXCEPT !.op = "shown", !.result = "data"]
               ELSE IF pure.ref = <<":">> /\ ex.text /\ "badRevision" \in ex.matches
               THEN ShowBegins(st, HeadRef \o <<":">>)
               ELSE IF ex.text /\ ex.matches \cap {"badRevision", "notFound",
                                                   "foundButNotInRevision"} # {}
               THEN [st EXCEPT !.op = "shown", !.result = "undefined"]
               ELSE [st EXCEPT !.op = "shown",
                               !.result = IF defaultExceptionHandler(ex) = EmptyOutput
                                          THEN "empty" ELSE "throws"]
    /\ UNCHANGED <<caching, cacheDisposable, fsWatcher, gitCache, entries, remotesCache,
                   gitignore, calls, procs, pendingCommands, microtasks, fired>>

NextShow ==
    \/ Show
    \/ \E ex \in ShowErrors \cup {NoError} : ShowSettles(ex)

SpecShow == InitShow /\ [][NextShow]_vars

\* C29: Git.show for the index sentinel reads ref ':' and, if that fails with a
\* bad-revision error, retries exactly once with 'HEAD:' and never further; a
\* bad-revision, path-not-found or found-but-not-in-revision failure resolves to
\* undefined; for the working-tree sentinel it throws without a subprocess.
C29_ShowRetriesIndexOnce ==
    LET badRevision(ex) == ex.thrown /\ ex.text /\ "badRevision" \in ex.matches
        expected(ex) ==
            /\ ex.thrown /\ ex.text
            /\ ex.matches \cap {"badRevision", "notFound", "foundButNotInRevision"} # {}
        n == Len(pure.spawned)
    IN
    /\ pure.asked = stagedUncommittedSha /\ n >= 1
           => pure.spawned[1] = <<"show", <<":", ".", "/">>, "f1", "--">>
    /\ n <= 2
    /\ n = 2 => /\ pure.spawned[1][2] = <<":", ".", "/">>
                /\ badRevision(pure.ended[1])
                /\ pure.spawned[2] = <<"show", HeadRef \o <<":", ".", "/">>, "f1", "--">>
    /\ pure.asked = stagedUncommittedSha /\ Len(pure.ended) >= 1
       /\ badRevision(pure.ended[1])
           => n = 2
    /\ pure.op = "shown" /\ pure.ended # <<>> /\ expected(pure.ended[Len(pure.ended)])
           => pure.result = "undefined"
    /\ pure.op = "shown" /\ pure.asked = uncommittedSha
           => pure.result = "throws" /\ pure.spawned = <<>>

\* the index sentinel was read with ':', failed with a bad revision, was read again
\* with 'HEAD:' and failed again with a bad revision
C29_Witness ==
    /\ pure.op = "shown" /\ pure.asked = stagedUncommittedSha
    /\ Len(pure.spawned) = 2 /\ Len(pure.ended) = 2
    /\ "badRevision" \in pure.ended[2].matches
    /\ pure.result = "undefined"

\* ------------------------------------------- ResultsCommitsNode.getTreeItem
MaxRenders == 2
MaxQueries == 2
MaxCount == 2

\* log == null
NoLog == -1

\* TreeItemCollapsibleState of a settled query: None without commits, Expanded
\* for options.expand or a single commit, otherwise Collapsed
StateOf(count, expand) ==
    IF count = NoLog \/ count = 0 THEN "None"
    ELSE IF expand \/ count = 1 THEN "Expanded"
    ELSE "Collapsed"

\* a getTreeItem call that has not begun
NoRender ==
    [q |-> 0, creator |-> FALSE, p |-> "pending", pc |-> "none", state |-> "none",
     timedOut |-> FALSE, watching |-> FALSE, notified |-> FALSE]

\* the i-th getTreeItem call of the node
Render(i) ==
    IF pure.op = "results" /\ i \in DOMAIN pure.renders THEN pure.renders[i] ELSE NoRender

\* the node after construction: no query started (_commitsQueryResults undefined),
\* _hasMore = true; the commits query's log and options.expand are its inputs.
\* hasMores holds the hasMore of each query's results, resumed whether the call of
\* getCommitsQueryResults that issued the query has run on from its await
InitResults ==
    /\ InitService
    /\ \E expand \in BOOLEAN, count \in {NoLog} \cup 0..MaxCount :
          pure = [op |-> "results", expand |-> expand, count |-> count,
                  queries |-> <<>>, renders |-> <<>>, triggered |-> 0,
                  hasMores |-> <<>>, resumed |-> <<>>, hasMore |-> TRUE]

\* Promises.cancellable(promise, 100) races the promise against a 100 ms timer:
\* it settles as the promise does, or rejects with a CancellationError holding
\* the promise when the time is over and the promise is still unsettled (a timer
\* runs only when no reaction of a settled promise is left to run)
cancellable(r) ==
    IF r.p # "pending" THEN "settled"
    ELSE IF pure.queries[r.q] = "pending" THEN "cancelled"
    ELSE "racing"

\* getTreeItem() up to `await Promises.cancellable(this.getCommitsQueryResults(), 100)`:
\* getCommitsQueryResults starts the query if there is none; its promise p is what
\* the 100 ms timer races
GetTreeItem ==
    LET first == pure.queries = <<>>
        qs == IF first THEN <<"pending">> ELSE pure.queries
    IN
    /\ pure.op = "results"
    /\ Len(pure.renders) < MaxRenders
    /\ pure' = [pure EXCEPT
                   !.queries = qs,
                   !.hasMores = IF first THEN <<FALSE>> ELSE @,
                   !.resumed = IF first THEN <<FALSE>> ELSE @,
                   !.renders = Append(@, [q |-> Len(qs), creator |-> first,
                                          p |-> "pending", pc |-> "racing",
                                          state |-> "none", timedOut |-> FALSE,
                                          watching |-> FALSE, notified |-> FALSE])]
    /\ UNCHANGED <<caching, cacheDisposable, fsWatcher, gitCache, entries, remotesCache,
                   gitignore, calls, procs, pendingCommands, microtasks, fired>>

\* refresh(true): _commitsQueryResults = undefined; void getCommitsQueryResults()
RefreshResults ==
    /\ pure.op = "results"
    /\ Len(pure.queries) < MaxQueries
    /\ pure' = [pure EXCEPT !.queries = Append(@, "pending"),
                            !.hasMores = Append(@, FALSE),
                            !.resumed = Append(@, FALSE)]
    /\ UNCHANGED <<caching, cacheDisposable, fsWatcher, gitCache, entries, remotesCache,
                   gitignore, calls, procs, pendingCommands, microtasks, fired>>

\* the promise returned by _commitsQuery fulfils, with results whose hasMore is
\* given, or rejects
QuerySettles(k, outcome, hasMore) ==
    /\ pure.op = "results"
    /\ k \in DOMAIN pure.queries
    /\ pure.queries[k] = "pending"
    /\ outcome = "rejected" => ~hasMore
    /\ pure' = [pure EXCEPT !.queries[k] = outcome, !.hasMores[k] = hasMore]
    /\ UNCHANGED <<caching, cacheDisposable, fsWatcher, gitCache, entries, remotesCache,
                   gitignore, calls, procs, pendingCommands, microtasks, fired>>

\* the call of getCommitsQueryResults() that issued query k runs on from
\* `const results = await this._commitsQueryResults`: this._hasMore = results.hasMore,
\* or the rejection is rethrown
QueryAwaited(k) ==
    /\ pure.op = "results"
    /\ k \in DOMAIN pure.queries
    /\ pure.queries[k] # "pending"
    /\ ~pure.resumed[k]
    /\ pure' = [pure EXCEPT !.resumed[k] = TRUE,
                            !.hasMore = IF pure.queries[k] = "fulfilled"
                                        THEN pure.hasMores[k] ELSE @]
    /\ UNCHANGED <<caching, cacheDisposable, fsWatcher, gitCache, entries, remotesCache,
                   gitignore, calls, procs, pendingCommands, microtasks, fired>>

\* the promise of getCommitsQueryResults(): the call that started the query resumes
\* after `await this._commitsQueryResults` (a rejection is rethrown) and returns the
\* promise the field holds by then; every other call returned the field's promise
PromiseSettles(i) ==
    LET r == Render(i) IN
    /\ pure.op = "results"
    /\ i \in DOMAIN pure.renders
    /\ r.p = "pending"
    /\ pure.queries[r.q] # "pending"
    /\ r.creator => pure.resumed[r.q]
    /\ pure' = IF r.creator /\ pure.queries[r.q] = "fulfilled" /\ Len(pure.queries) # r.q
               THEN [pure EXCEPT !.renders[i].q = Len(pure.queries),
                                 !.renders[i].creator = FALSE]
               ELSE [pure EXCEPT !.renders[i].p = pure.queries[r.q],
                                 !.renders[i].creator = FALSE]
    /\ UNCHANGED <<caching, cacheDisposable, fsWatcher, gitCache, entries, remotesCache,
                   gitignore, calls, procs, pendingCommands, microtasks, fired>>

\* p settles before the timer: the try block computes the state, or the catch block
\* (ex is the query's error, no CancellationError) takes Collapsed
RaceEnds(i) ==
    LET r == Render(i) IN
    /\ pure.op = "results"
    /\ i \in DOMAIN pure.renders
    /\ r.pc = "racing"
    /\ cancellable(r) = "settled"
    /\ pure' = [pure EXCEPT
                   !.renders[i].pc = "done",
                   !.renders[i].state = IF r.p = "fulfilled"
                                        THEN StateOf(pure.count, pure.expand)
                                        ELSE "Collapsed"]
    /\ UNCHANGED <<caching, cacheDisposable, fsWatcher, gitCache, entries, remotesCache,
                   gitignore, calls, procs, pendingCommands, microtasks, fired>>

\* the 100 ms pass first: CancellationError(p); the catch block registers
\* ex.promise.then(() => this.triggerChange(false)) and takes Collapsed
TimerFires(i) ==
    LET r == Render(i) IN
    /\ pure.op = "results"
    /\ i \in DOMAIN pure.renders
    /\ r.pc = "racing"
    /\ cancellable(r) = "cancelled"
    /\ pure' = [pure EXCEPT !.renders[i].pc = "done",
                            !.renders[i].state = "Collapsed",
                            !.renders[i].timedOut = TRUE,
                            !.renders[i].watching = TRUE]
    /\ UNCHANGED <<caching, cacheDisposable, fsWatcher, gitCache, entries, remotesCache,
                   gitignore, calls, procs, pendingCommands, microtasks, fired>>

\* the reaction registered with then(onFulfilled): runs once p is fulfilled; then()
\* was given no onRejected
ThenRuns(i) ==
    LET r == Render(i) IN
    /\ pure.op = "results"
    /\ i \in DOMAIN pure.renders
    /\ r.watching /\ ~r.notified
    /\ r.p = "fulfilled"
    /\ pure' = [pure EXCEPT !.renders[i].notified = TRUE,
                            !.triggered = @ + 1]
    /\ UNCHANGED <<caching, cacheDisposable, fsWatcher, gitCache, entries, remotesCache,
                   gitignore, calls, procs, pendingCommands, microtasks, fired>>

NextResults ==
    \/ GetTreeItem
    \/ RefreshResults
    \/ \E k \in 1..MaxQueries, outcome \in {"fulfilled", "rejected"}, hasMore \in BOOLEAN :
           QuerySettles(k, outcome, hasMore)
    \/ \E k \in 1..MaxQueries : QueryAwaited(k)
    \/ \E i \in 1..MaxRenders : PromiseSettles(i)
    \/ \E i \in 1..MaxRenders : RaceEnds(i)
    \/ \E i \in 1..MaxRenders : TimerFires(i)
    \/ \E i \in 1..MaxRenders : ThenRuns(i)

SpecResults == InitResults /\ [][NextResults]_vars

\* promise reactions are jobs of the event loop and always run; a query may never
\* settle, a render may never be asked for
SpecResultsFair ==
    /\ SpecResults
    /\ \A i \in 1..MaxRenders :
          /\ WF_vars(PromiseSettles(i))
          /\ WF_vars(RaceEnds(i))
          /\ WF_vars(ThenRuns(i))
    /\ \A k \in 1..MaxQueries : WF_vars(QueryAwaited(k))

\* C30: a getTreeItem whose commits query has not settled within 100 ms returns a
\* provisional Collapsed item, and once the raced promise settles, fulfilled or
\* rejected, triggerChange is eventually called for it.
C30_RerenderOnceQuerySettles ==
    /\ [](\A i \in 1..MaxRenders :
              Render(i).timedOut => Render(i).pc = "done" /\ Render(i).state = "Collapsed")
    /\ \A i \in 1..MaxRenders :
          (Render(i).timedOut /\ Render(i).p # "pending")
              ~> (Render(i).notified /\ pure.triggered > 0)

\* C31: getLogForFile with a range or reversed leaves the cache map and every entry
\* unchanged, at the call and in each of its continuations, stores no error
\* placeholder when it fails, and returns the promise of its own new invocation.
C31_UncacheableLogLeavesCache ==
    [][/\ Len(calls') > Len(calls) /\ ~calls'[Len(calls')].cacheable
          => /\ UNCHANGED <<gitCache, entries>>
             /\ calls'[Len(calls')].entry = 0
             /\ calls'[Len(calls')].ret = Len(calls')
             /\ calls'[Len(calls')].pc = "awaitIgnore"
       /\ \A c \in 1..Len(calls) :
             ~calls[c].cacheable /\ microtasks # <<>> /\ Head(microtasks) = c
                => /\ UNCHANGED <<gitCache, entries>>
                   /\ calls'[c].entry = 0 /\ calls'[c].ret = c]_vars

\* with caching enabled and the whole-file log of f1 cached, a reversed log of f1
\* ran its own subprocess, which failed
C31_Witness ==
    \E c \in 1..Len(calls) :
        /\ ~calls[c].cacheable /\ calls[c].pc = "done" /\ calls[c].ret = c
        /\ calls[c].proc > 0 /\ procs[calls[c].proc].st = "fail"
        /\ caching /\ gitCache[calls[c].file] # 0
        /\ HasSlot(gitCache[calls[c].file], <<"log", NoSha>>)
        /\ ~entries[gitCache[calls[c].file]][<<"log", NoSha>>].err

\* ------------------------------------------------------ findWorkingFileName
MaxCommits == 3
MaxLookups == 5

FileNames == {"A", "B", "C"}
NoFileName == "undefined"

\* the renames one commit can record with -M over the tree of its parent: each
\* source is a path of the parent that the commit no longer has, each destination
\* a path the parent did not have
RenamesOf(tree) ==
    {rs \in SUBSET (tree \X (FileNames \ tree)) :
        \A r1, r2 \in rs : (r1[1] = r2[1] \/ r1[2] = r2[2]) => r1 = r2}

\* the commit's file statuses name the path: as the old or new name of a rename,
\* or as a modified file
Touches(c, name) ==
    \/ name \in c.modified
    \/ \E r \in c.renames : r[1] = name \/ r[2] = name

\* a getLogCommit that answers with the last commit that renamed the file away
getLogCommit_RenamedFrom(history, name) ==
    LET S == {i \in 1..Len(history) : \E r \in history[i].renames : r[1] = name}
    IN IF S = {} THEN 0 ELSE CHOOSE i \in S : \A j \in S : j <= i
\* getLogCommit(repoPath, fileName): the first commit of `git log -n1 --follow --
\* fileName`, the most recent commit that touches the path (0: no such commit)
getLogCommit(history, name) ==
    LET S == {i \in 1..Len(history) : Touches(history[i], name)}
    IN IF S = {} THEN 0 ELSE CHOOSE i \in S : \A j \in S : j <= i

\* _findNextFileName(repoPath, fileName): the new name in the status of that commit
\* whose originalFileName is fileName
findNextFileName(history, name) ==
    LET i == getLogCommit(history, name)
        S == IF i = 0 THEN {} ELSE {r \in history[i].renames : r[1] = name}
    IN IF S = {} THEN NoFileName ELSE (CHOOSE r \in S : TRUE)[2]

InitRename ==
    /\ InitService
    /\ \E tree \in SUBSET FileNames :
          pure = [op |-> "history", tree |-> tree, history |-> <<>>,
                  fileName |-> NoFileName, visited |-> <<>>, result |-> NoFileName]

\* the repository gains a commit
Commit(renames, modified) ==
    /\ pure.op = "history"
    /\ Len(pure.history) < MaxCommits
    /\ renames \in RenamesOf(pure.tree)
    /\ modified \subseteq pure.tree \ {r[1] : r \in renames}
    /\ renames # {} \/ modified # {}
    /\ pure' = [pure EXCEPT
                   !.history = Append(@, [renames |-> renames, modified |-> modified]),
                   !.tree = (@ \ {r[1] : r \in renames}) \cup {r[2] : r \in renames}]
    /\ UNCHANGED <<caching, cacheDisposable, fsWatcher, gitCache, entries, remotesCache,
                   gitignore, calls, procs, pendingCommands, microtasks, fired>>

\* findWorkingFileName(repoPath, fileName), or findWorkingFileName(commit) whose
\* workingFileName is missing or not on disk, up to the loop
FindWorkingFileName(name) ==
    /\ pure.op = "history"
    /\ pure' = [pure EXCEPT !.op = "searching", !.fileName = name, !.visited = <<name>>]
    /\ UNCHANGED <<caching, cacheDisposable, fsWatcher, gitCache, entries, remotesCache,
                   gitignore, calls, procs, pendingCommands, microtasks, fired>>

\* one pass of `while (true)`: _fileExists, then _findNextFileName
LoopPass(exists) ==
    LET next == findNextFileName(pure.history, pure.fileName) IN
    /\ pure.op = "searching"
    /\ IF exists
       THEN pure' = [pure EXCEPT !.op = "returned", !.result = pure.fileName]
       ELSE IF next = NoFileName
       THEN pure' = [pure EXCEPT !.op = "returned", !.result = NoFileName]
       ELSE /\ Len(pure.visited) < MaxLookups
            /\ pure' = [pure EXCEPT !.fileName = next, !.visited = Append(@, next)]
    /\ UNCHANGED <<caching, cacheDisposable, fsWatcher, gitCache, entries, remotesCache,
                   gitignore, calls, procs, pendingCommands, microtasks, fired>>

NextRename ==
    \/ \E renames \in RenamesOf(pure.tree), modified \in SUBSET pure.tree :
           Commit(renames, modified)
    \/ \E name \in FileNames : FindWorkingFileName(name)
    \/ \E exists \in BOOLEAN : LoopPass(exists)

SpecRename == InitRename /\ [][NextRename]_vars

\* the loop is never left waiting: a file that is not on disk is looked up
SpecRenameFair == SpecRename /\ WF_vars(LoopPass(FALSE))

\* C32: findWorkingFileName terminates for every rename history: after at most one
\* look-up per commit and one more it has returned a name it found on disk or
\* undefined, also when no name exists on disk and a rename leads back to a name
\* already visited.
C32_FindWorkingFileNameTerminates ==
    /\ [](pure.op \in {"searching", "returned"}
             => /\ Len(pure.visited) <= Len(pure.history) + 1
                /\ pure.op = "returned" /\ pure.result # NoFileName
                      => pure.result = pure.visited[Len(pure.visited)])
    /\ (pure.op = "searching") ~> (pure.op = "returned")

\* A was renamed to B and B back to A, neither is on disk: the search from B
\* followed the rename back to A and ended there with undefined
C32_Witness ==
    /\ pure.op = "returned" /\ pure.result = NoFileName
    /\ pure.visited = <<"B", "A">>
    /\ \E i, j \in 1..Len(pure.history) :
          /\ i < j
          /\ <<"A", "B">> \in pure.history[i].renames
          /\ <<"B", "A">> \in pure.history[j].renames

\* ----------------------------------------------------------- CompareResultsNode
MaxPinCalls == 3

\* getPinnableId(): Strings.sha1(`${repoPath}|${ref1.ref}|${ref2.ref}`), one id per
\* order of the two refs
getPinnableId(refs) == <<Repo, refs[1], refs[2]>>

\* the pinned comparisons after view.updatePinnedComparison(id, pin) took effect:
\* with a pin the entry is stored under id, without one the entry under id is removed
updatePinnedComparison(store, id, set) ==
    IF set THEN store \cup {id} ELSE store \ {id}

\* the node as the view creates it: a new comparison, or one restored from the
\* pinned comparisons.  `eager` is when updatePinnedComparison changes the store:
\* as it is called, or only as its promise resolves
InitCompare ==
    /\ InitService
    /\ \E pinned \in BOOLEAN, eager \in BOOLEAN :
          pure = [op |-> "compare", refs |-> <<"r1", "r2">>, pinned |-> pinned,
                  store |-> IF pinned THEN {getPinnableId(<<"r1", "r2">>)} ELSE {},
                  eager |-> eager, tasks |-> <<>>, changes |-> 0]

\* a call of updatePinnedComparison(id, pin) made by a new or resumed task
AwaitUpdate(st, t, op, pc, id, set) ==
    [st EXCEPT !.tasks = IF t > Len(st.tasks)
                         THEN Append(@, [op |-> op, pc |-> pc, id |-> id, set |-> set])
                         ELSE [@ EXCEPT ![t] = [op |-> op, pc |-> pc, id |-> id, set |-> set]],
               !.store = IF st.eager THEN updatePinnedComparison(@, id, set) ELSE @]

\* the awaited update has resolved
Resolved(st, t) ==
    [st EXCEPT !.store = IF st.eager THEN @
                         ELSE updatePinnedComparison(@, st.tasks[t].id, st.tasks[t].set)]

\* pin(), up to `await this.view.updatePinnedComparison(...)`
Pin ==
    /\ pure.op = "compare"
    /\ Len(pure.tasks) < MaxPinCalls
    /\ pure' = IF pure.pinned
               THEN [pure EXCEPT !.tasks = Append(@, [op |-> "pin", pc |-> "done",
                                                      id |-> <<>>, set |-> FALSE])]
               ELSE AwaitUpdate(pure, Len(pure.tasks) + 1, "pin", "await",
                                getPinnableId(pure.refs), TRUE)
    /\ UNCHANGED <<caching, cacheDisposable, fsWatcher, gitCache, entries, remotesCache,
                   gitignore, calls, procs, pendingCommands, microtasks, fired>>

\* unpin(), up to its await
Unpin ==
    /\ pure.op = "compare"
    /\ Len(pure.tasks) < MaxPinCalls
    /\ pure' = IF ~pure.pinned
               THEN [pure EXCEPT !.tasks = Append(@, [op |-> "unpin", pc |-> "done",
                                                      id |-> <<>>, set |-> FALSE])]
               ELSE AwaitUpdate(pure, Len(pure.tasks) + 1, "unpin", "await",
                                getPinnableId(pure.refs), FALSE)
    /\ UNCHANGED <<caching, cacheDisposable, fsWatcher, gitCache, entries, remotesCache,
                   gitignore, calls, procs, pendingCommands, microtasks, fired>>

\* swap(): currentId, the refs change places, then the first await if pinned
Swap ==
    LET swapped == [pure EXCEPT !.refs = <<pure.refs[2], pure.refs[1]>>] IN
    /\ pure.op = "compare"
    /\ Len(pure.tasks) < MaxPinCalls
    /\ pure' = IF pure.pinned
               THEN AwaitUpdate(swapped, Len(pure.tasks) + 1, "swap", "awaitRemove",
                                getPinnableId(pure.refs), FALSE)
               ELSE [swapped EXCEPT !.tasks = Append(@, [op |-> "swap", pc |-> "done",
                                                         id |-> <<>>, set |-> FALSE]),
                                    !.changes = @ + 1]
    /\ UNCHANGED <<caching, cacheDisposable, fsWatcher, gitCache, entries, remotesCache,
                   gitignore, calls, procs, pendingCommands, microtasks, fired>>

\* the continuation of task t after its await
ResumePin(t) ==
    LET r == pure.tasks[t]
        st == Resolved(pure, t)
    IN
    /\ pure.op = "compare"
    /\ t \in DOMAIN pure.tasks
    /\ r.pc \in {"await", "awaitRemove", "awaitSave"}
    /\ pure' = CASE r.op = "pin" ->
                      [st EXCEPT !.pinned = TRUE, !.tasks[t].pc = "done",
                                 !.changes = @ + 1]
                 [] r.op = "unpin" ->
                      [st EXCEPT !.pinned = FALSE, !.tasks[t].pc = "done",
                                 !.changes = @ + 1]
                 [] r.op = "swap" /\ r.pc = "awaitRemove" ->
                      AwaitUpdate(st, t, "swap", "awaitSave", getPinnableId(st.refs), TRUE)
                 [] OTHER ->
                      [st EXCEPT !.tasks[t].pc = "done", !.changes = @ + 1]
    /\ UNCHANGED <<caching, cacheDisposable, fsWatcher, gitCache, entries, remotesCache,
                   gitignore, calls, procs, pendingCommands, microtasks, fired>>

NextCompare ==
    \/ Pin
    \/ Unpin
    \/ Swap
    \/ \E t \in 1..MaxPinCalls : ResumePin(t)

SpecCompare == InitCompare /\ [][NextCompare]_vars

\* C33: when every pin(), unpin() and swap() call has run to completion, the node is
\* pinned if and only if the pinned comparisons hold an entry under the id of the
\* current ref order, and hold none under the id of the other order.
C33_PinnedMatchesStore ==
    (pure.op = "compare" /\ \A t \in DOMAIN pure.tasks : pure.tasks[t].pc = "done")
        => /\ pure.pinned <=> getPinnableId(pure.refs) \in pure.store
           /\ pure.store \subseteq {getPinnableId(pure.refs)}

\* C34: once every commits query issued has settled and the calls awaiting them
\* have run on, hasMore is the hasMore of the query issued last, in whichever order
\* the queries of a refresh(true) and of an earlier call settled.
C34_HasMoreOfLatestQuery ==
    (/\ pure.op = "results" /\ pure.queries # <<>>
     /\ \A k \in DOMAIN pure.queries : pure.queries[k] # "pending" /\ pure.resumed[k]
     /\ pure.queries[Len(pure.queries)] = "fulfilled")
        => pure.hasMore = pure.hasMores[Len(pure.queries)]

\* ------------------------------------------------------------ RevertGitCommand
MaxRefs == 2
MaxRepos == 2

RevertRefs == {"c1", "c2", "c3"}
NoRepo == <<"undefined">>
\* the k-th of the ordered repositories
Repository(k) == <<"repository", k>>
NoRefs == <<"undefined">>
Back == <<"back">>

\* what a multiselect pick can return: the chosen commits in the order the quick
\* pick reports them
RefSelections ==
    {sel \in UNION {[1..n -> RevertRefs] : n \in 1..MaxRefs} :
        \A i, j \in DOMAIN sel : i # j => sel[i] # sel[j]}

\* canPickStepMoveNext(step, state, selection): going back lowers the counter (not
\* below 0) and answers false, a selection raises it and answers true
canPickStepMoveNext(st, selection) ==
    IF selection = Back
    THEN [st EXCEPT !.counter = IF @ > 0 THEN @ - 1 ELSE 0]
    ELSE [st EXCEPT !.counter = @ + 1]

\* an execute that passes the references as selected
execute_InOrder(st) ==
    [st EXCEPT !.executed = @ + 1, !.reverted = st.references, !.pc = "done"]
\* execute(state): state.repo.revert(...state.references.map(c => c.ref).reverse())
execute(st) ==
    [st EXCEPT !.executed = @ + 1, !.reverted = Reverse(st.references), !.pc = "done"]

\* the confirm step is created and yielded
ConfirmStep(st) == [st EXCEPT !.pc = "confirm", !.confirms = 1]

\* from `const destination = await state.repo.getBranch()` to the next yield
FromDestination(st) ==
    IF ~st.hasBranch THEN [st EXCEPT !.pc = "done"]
    ELSE IF st.references = NoRefs \/ st.counter < 2
    THEN [st EXCEPT !.pc = "pickRefs"]
    ELSE ConfirmStep(st)

\* one pass of `while (true)` from its top to the next yield or break
FromTop(st) ==
    IF st.repo = NoRepo \/ st.counter < 1
    THEN IF st.repos = 1
         THEN FromDestination([st EXCEPT !.counter = @ + 1, !.repo = Repository(1)])
         ELSE [st EXCEPT !.pc = "pickRepo"]
    ELSE FromDestination(st)

\* the command as constructed: args.state with or without repo and references
\* (counter counts those given), the repositories open, whether the repository has
\* a current branch and the branch a log
InitRevert ==
    /\ InitService
    /\ \E repos \in 1..MaxRepos, repo \in {NoRepo} \cup {Repository(k) : k \in 1..MaxRepos},
          refs \in {NoRefs} \cup RefSelections, hasBranch \in BOOLEAN, hasLog \in BOOLEAN :
          /\ repo \in {NoRepo} \cup {Repository(k) : k \in 1..repos}
          /\ pure = [op |-> "revert", pc |-> "start", repos |-> repos, repo |-> repo,
                     references |-> refs,
                     counter |-> (IF repo # NoRepo THEN 1 ELSE 0)
                                 + (IF refs # NoRefs THEN 1 ELSE 0),
                     hasBranch |-> hasBranch, hasLog |-> hasLog,
                     confirms |-> 0, accepted |-> FALSE, executed |-> 0,
                     reverted |-> NoRefs]

\* steps() runs to its first yield
StepsStart ==
    /\ pure.op = "revert" /\ pure.pc = "start"
    /\ pure' = FromTop(pure)
    /\ UNCHANGED <<caching, cacheDisposable, fsWatcher, gitCache, entries, remotesCache,
                   gitignore, calls, procs, pendingCommands, microtasks, fired>>

\* the repository pick returns
PickRepository(selection) ==
    LET st == canPickStepMoveNext(pure, selection) IN
    /\ pure.op = "revert" /\ pure.pc = "pickRepo"
    /\ selection \in {Back} \cup {Repository(k) : k \in 1..pure.repos}
    /\ pure' = IF selection = Back
               THEN [st EXCEPT !.pc = "done"]
               ELSE FromDestination([st EXCEPT !.repo = selection])
    /\ UNCHANGED <<caching, cacheDisposable, fsWatcher, gitCache, entries, remotesCache,
                   gitignore, calls, procs, pendingCommands, microtasks, fired>>

\* the commits pick returns; without a log it offers Back only
PickCommits(selection) ==
    LET st == canPickStepMoveNext(pure, selection) IN
    /\ pure.op = "revert" /\ pure.pc = "pickRefs"
    /\ selection = Back \/ (pure.hasLog /\ selection \in RefSelections)
    /\ pure' = IF selection = Back
               THEN IF pure.repos = 1 THEN [st EXCEPT !.pc = "done"] ELSE FromTop(st)
               ELSE ConfirmStep([st EXCEPT !.references = selection])
    /\ UNCHANGED <<caching, cacheDisposable, fsWatcher, gitCache, entries, remotesCache,
                   gitignore, calls, procs, pendingCommands, microtasks, fired>>

\* the confirm step returns
Confirm(selection) ==
    LET st == canPickStepMoveNext(pure, selection) IN
    /\ pure.op = "revert" /\ pure.pc = "confirm"
    /\ pure' = IF selection = Back
               THEN FromTop([st EXCEPT !.confirms = 0])
               ELSE execute([st EXCEPT !.accepted = TRUE])
    /\ UNCHANGED <<caching, cacheDisposable, fsWatcher, gitCache, entries, remotesCache,
                   gitignore, calls, procs, pendingCommands, microtasks, fired>>

NextRevert ==
    \/ StepsStart
    \/ \E selection \in {Back} \cup {Repository(k) : k \in 1..MaxRepos} :
           PickRepository(selection)
    \/ \E selection \in {Back} \cup RefSelections : PickCommits(selection)
    \/ \E selection \in {Back, <<"revert">>} : Confirm(selection)

SpecRevert == InitRevert /\ [][NextRevert]_vars

\* C35: in every run of the steps execute is invoked at most once, only by accepting
\* the confirm step that is on display, and revert receives the references in the
\* reverse of their selection order.
C35_ExecuteOnceAfterConfirm ==
    [][/\ pure.op = "revert" => pure.executed <= 1 /\ pure'.executed <= 1
       /\ pure'.executed > pure.executed
             => /\ pure.pc = "confirm" /\ pure.confirms = 1
                /\ pure'.accepted /\ pure'.pc = "done"
                /\ pure.executed = 0
                /\ pure.references # NoRefs /\ pure.repo # NoRepo
                /\ Len(pure'.reverted) = Len(pure.references)
                /\ \A i \in DOMAIN pure.references :
                      pure'.reverted[i] = pure.references[Len(pure.references) + 1 - i]
       /\ pure.op = "revert" /\ pure.pc = "done" => pure'.pc = "done"]_vars

\* c2 and then c1 were chosen and the confirmation accepted: revert received
\* c1, c2
C35_Witness ==
    /\ pure.op = "revert" /\ pure.executed = 1 /\ pure.counter = 3
    /\ pure.references = <<"c2", "c1">> /\ pure.reverted = <<"c1", "c2">>

\* ------------------------------------------------------- the service's listeners
MaxListenerChanges == 3

\* the listeners registered with the editor and the watchers created, as the editor
\* holds them: close, save and index-change listeners, index watchers, and the
\* configuration listener of the constructor
InitListeners ==
    /\ InitService
    /\ pure = [op |-> "listeners", close |-> 1, save |-> 1, change |-> 1,
               watchers |-> 1, config |-> 1, disposed |-> FALSE]

\* a handler that registers the new listeners without disposing the old ones
CacheListeners_KeepsOld(reg, cachingNew) ==
    LET watched == IF fsWatcher THEN 1 ELSE 0 IN
    IF cachingNew
    THEN [reg EXCEPT !.close = @ + 1, !.save = @ + 1, !.change = @ + 1,
                     !.watchers = @ - watched + 1]
    ELSE [reg EXCEPT !.close = 0, !.save = 0, !.change = 0, !.watchers = @ - watched]
\* what the `if (advancedChanged)` block does to them: _cacheDisposable.dispose()
\* removes the set it holds, the watcher is kept or created and three listeners
\* are registered; or listeners and watcher are disposed
CacheListeners(reg, cachingNew) ==
    LET held == IF cacheDisposable THEN 1 ELSE 0
        watched == IF fsWatcher THEN 1 ELSE 0
    IN
    IF cachingNew
    THEN [reg EXCEPT !.close = @ - held + 1, !.save = @ - held + 1,
                     !.change = @ - held + 1, !.watchers = @ - watched + 1]
    ELSE [reg EXCEPT !.close = @ - held, !.save = @ - held, !.change = @ - held,
                     !.watchers = @ - watched]

\* workspace.onDidChangeConfiguration fires: _onConfigurationChanged, with the
\* advanced section changed or not
ConfigurationChanged(advancedChanged, cachingNew, rules) ==
    /\ pure.op = "listeners"
    /\ pure.config > 0
    /\ Len(gitignore) < 1 + MaxListenerChanges
    /\ IF advancedChanged
       THEN /\ AdvancedChanged(cachingNew, rules)
            /\ pure' = CacheListeners(pure, cachingNew)
       ELSE UNCHANGED vars

\* dispose()
Dispose ==
    /\ pure.op = "listeners"
    /\ ~pure.disposed
    /\ ~MicrotasksPending
    /\ pure' = [pure EXCEPT !.config = 0, !.disposed = TRUE,
                            !.close = @ - (IF cacheDisposable THEN 1 ELSE 0),
                            !.save = @ - (IF cacheDisposable THEN 1 ELSE 0),
                            !.change = @ - (IF cacheDisposable THEN 1 ELSE 0),
                            !.watchers = @ - (IF fsWatcher THEN 1 ELSE 0)]
    /\ cacheDisposable' = FALSE
    /\ fsWatcher' = FALSE
    /\ gitCache' = [f \in Files |-> 0]
    /\ remotesCache' = [x \in {} |-> 0]
    /\ fired' = NoFire
    /\ UNCHANGED <<caching, entries, gitignore, calls, procs, pendingCommands, microtasks>>

NextListeners ==
    \/ \E advancedChanged \in BOOLEAN, cachingNew \in BOOLEAN, rules \in RuleSets :
           ConfigurationChanged(advancedChanged, cachingNew, rules)
    \/ Dispose
    \/ Invalidate
    \/ \E g \in 1..Len(gitignore) : GitignoreLoaded(g)

SpecListeners == InitListeners /\ [][NextListeners]_vars

\* C36: after any sequence of configuration changes the service holds exactly one
\* close, one save and one index-change listener and one index watcher while caching
\* is enabled, and none when caching is disabled or the service is disposed, so
\* that one file event runs the eviction handler at most once.
C36_OneSetOfListeners ==
    pure.op = "listeners"
        => LET n == IF caching /\ ~pure.disposed THEN 1 ELSE 0 IN
           /\ pure.close = n /\ pure.save = n /\ pure.change = n /\ pure.watchers = n
           /\ cacheDisposable <=> n = 1
           /\ fsWatcher <=> n = 1

\* after MaxListenerChanges changes of the advanced section that leave caching
\* enabled: one set of listeners, one watcher
C36_Witness ==
    /\ pure.op = "listeners" /\ ~pure.disposed
    /\ Len(gitignore) = 1 + MaxListenerChanges
    /\ caching /\ pure.close = 1 /\ pure.watchers = 1

====
